---- MODULE Spec2Model ----
(***************************************************************************)
(* Model of the adaptive performance governor of the game hub              *)
(* (SharedPerformanceManager, src/shared-performance.js) together with the *)
(* part of the storage manager it uses (src/shared-storage.js), and of the *)
(* event dispatch and the swipe functions of the input engine              *)
(* (SharedInputManager, src/unnamed/part_003), and of the progress system  *)
(* (GameProgressSystem, src/unnamed/part_001).                             *)
(*                                                                         *)
(* Frame rates are kept exact: the frame intervals tried divide one second, *)
(* so 1000 / deltaTime is a whole number, and the moving average is the    *)
(* pair <<sum, count>>, compared with the thresholds without rounding.     *)
(***************************************************************************)
EXTENDS Integers, Sequences, FiniteSets, TLC

VARIABLES
    navigator,          \* the host's hardware description read by detectDevicePerformance
    localStorage,       \* the value stored under gamehub_common_qualityLevel, or NoItem
    targetFPS,
    currentFPS,         \* <<numerator, denominator>> of the moving average
    fpsHistory,
    qualityLevel,
    frameCount,
    adaptiveQuality,
    monitoringEnabled,
    armed,              \* requestAnimationFrame callbacks of monitor() not yet run
    published,          \* payloads handed to notifyCallbacks by the last handler, in order
    lastOp,             \* the handler that ran last: its name, its argument, the quality
                        \* level it found, and whether it called adjustQuality
    recorded,           \* every sample pushed since fpsHistory was last emptied
    pinned,             \* the concrete level of the last accepted setQualityLevel, if any
    perfCallbacks,      \* the governor's Set of callbacks, in insertion order
    callbacks,          \* the input engine's Map from event name to Set of callbacks
    invoked,            \* the callback invocations made by the last handler, in order
    begun,              \* the Set the last handler's publish started to iterate
    live,               \* per followed kind: subscribe calls of callback p not yet
                        \* undone by a call of an unsubscribe function or of off()
    spent,              \* per followed kind: an unsubscribe function of p was called
    gestureThresholds,
    swipe,              \* the last swipe data classified, with the results returned
    storage,            \* how the storage collaborator behaves: see StorageModes
    escaped,            \* an exception left the last handler of the governor
    enabled,
    keys,               \* the input engine's Map from lowercased key name to boolean
    touches,            \* the input engine's Map from contact id to contact record
    now,                \* the value Date.now() returned last
    contact,            \* the contact ids the host has on the surface
    emitted,            \* the events the last handler of the input engine handed to
                        \* triggerCallback(), in order, each with the contact ids
                        \* that had a record at that moment
    started,            \* per contact id: touchstart events published for it since
                        \* the last touchend published for it, counted up to MaxStarts
    progress,           \* this.progress of the progress system (GameProgressSystem)
    progressItem        \* the text stored under gamePortalProgress, empty when absent

vars == <<navigator, localStorage, targetFPS, currentFPS, fpsHistory, qualityLevel,
          frameCount, adaptiveQuality, monitoringEnabled, armed, published, lastOp,
          recorded, pinned, perfCallbacks, callbacks, invoked, begun, live,
          spent, gestureThresholds, swipe, storage, escaped, enabled, keys, touches,
          now, contact, emitted, started, progress, progressItem>>

(***************************************************************************)
(* Bounds of the model and constants of the program.                       *)
(***************************************************************************)
MaxFrames == 62
BlockLen == 30
MaxArmed == 2
MaxRegistered == 3      \* registrations held by all callback Sets together
MaxLive == 2            \* subscribe calls of p outstanding for one kind

maxHistoryLength == 60
EvalPeriod == 60
LowFPS == 45
HighFPS == 55
InitialTargetFPS == 60

NoItem == "<no item>"
NotPinned == "<not pinned>"
Levels == {"high", "medium", "low", "auto"}
\* Arguments tried on setQualityLevel: the four levels and a value outside them.
LevelArgs == Levels \cup {"ultra"}
\* Items the store may hold when the page loads: nothing, a concrete tier, and a
\* value that no tier names (written by another page version or by importData).
InitialItems == {NoItem, "low", "ultra"}
\* Frame intervals handed to monitor(), in tenths of a millisecond
\* (performance.now() is fractional): 10 ms, 12.5 ms and 100 ms.
DeltaTimes == {100, 125, 1000}
\* Hardware descriptions: 0 / "" stand for a property the browser does not expose.
Navigators ==
    { [hardwareConcurrency |-> 0, deviceMemory |-> 0, connection |-> ""],
      [hardwareConcurrency |-> 8, deviceMemory |-> 8, connection |-> "4g"] }

(***************************************************************************)
(* Pure helpers.                                                           *)
(***************************************************************************)
RECURSIVE SumSeq(_)
SumSeq(s) == IF s = <<>> THEN 0 ELSE Head(s) + SumSeq(Tail(s))

\* 1000 / deltaTime, for deltaTime in tenths of a millisecond
InstantFPS(deltaTime) == 10000 \div deltaTime

\* Variant of PushSample that evicts with pop() instead of shift().
PushSamplePop(h, fps) ==
    LET pushed == Append(h, fps)
    IN  IF Len(pushed) > maxHistoryLength THEN SubSeq(pushed, 1, Len(pushed) - 1)
        ELSE pushed

\* fpsHistory.push(fps); if (length > maxHistoryLength) fpsHistory.shift()
PushSample(h, fps) ==
    LET pushed == Append(h, fps)
    IN  IF Len(pushed) > maxHistoryLength THEN Tail(pushed) ELSE pushed

\* fpsHistory.reduce((a, b) => a + b, 0) / fpsHistory.length
Average(h) == <<SumSeq(h), Len(h)>>

\* avg < n and avg > n for an average <<num, den>> with den > 0
Below(avg, n) == avg[1] < n * avg[2]
Above(avg, n) == avg[1] > n * avg[2]

DeviceScore(nav) ==
    LET hc == IF nav.hardwareConcurrency = 0 THEN 2 ELSE nav.hardwareConcurrency
        dm == IF nav.deviceMemory = 0 THEN 4 ELSE nav.deviceMemory
        cn == IF nav.connection = "" THEN "4g" ELSE nav.connection
        cpu == IF hc >= 8 THEN 4 ELSE IF hc >= 4 THEN 3 ELSE IF hc >= 2 THEN 2 ELSE 1
        mem == IF dm >= 8 THEN 3 ELSE IF dm >= 4 THEN 2 ELSE IF dm >= 2 THEN 1 ELSE 0
        net == IF cn = "4g" THEN 2 ELSE IF cn = "3g" THEN 1 ELSE 0
    IN  cpu + mem + net

\* Variant of DetectDevicePerformance with the upper threshold one too low.
DetectDevicePerformanceLowBar(nav) ==
    IF DeviceScore(nav) >= 6 THEN "high"
    ELSE IF DeviceScore(nav) >= 4 THEN "medium"
    ELSE "low"

\* The quality level detectDevicePerformance assigns.
DetectDevicePerformance(nav) ==
    IF DeviceScore(nav) >= 7 THEN "high"
    ELSE IF DeviceScore(nav) >= 4 THEN "medium"
    ELSE "low"

\* The storage collaborator: "working" reads and writes the store; "throwing" is a
\* store whose getItem() and setItem() throw (storage denied, quota exceeded);
\* "missing" is a page where the storage script did not run, so that
\* typeof sharedStorage is 'undefined'.
StorageModes == {"working", "throwing", "missing"}

\* sharedStorage.load(key, defaultValue): what it returns and whether it throws.
\* The whole body is inside try { } catch { return defaultValue }.
StorageLoad(mode, item, defaultValue) ==
    [value  |-> IF mode = "working" /\ item # NoItem THEN item ELSE defaultValue,
     thrown |-> FALSE]

\* Variant of StorageSave that lets the exception of setItem() through.
StorageSaveUncaught(mode, item, value) ==
    [item   |-> IF mode = "working" THEN value ELSE item,
     thrown |-> mode = "throwing"]

\* sharedStorage.save(key, value): the item it leaves in the store and whether it
\* throws. The whole body is inside try { } catch { return false }.
StorageSave(mode, item, value) ==
    [item   |-> IF mode = "working" THEN value ELSE item,
     thrown |-> FALSE]

\* loadSettings() reads sharedStorage.getSetting('qualityLevel', 'auto') if
\* typeof sharedStorage !== 'undefined', and leaves the level alone otherwise
\* (which is what reading 'auto' does).
GetSetting(item) ==
    IF storage = "missing" THEN "auto" ELSE StorageLoad(storage, item, "auto").value

\* An exception leaves loadSettings().
LoadThrows(item) == storage # "missing" /\ StorageLoad(storage, item, "auto").thrown

BaseSettings ==
    [ high   |-> [maxParticles |-> 100, particleCount |-> 20,
                  shouldSkipFrames |-> FALSE, renderQualityTenths |-> 10],
      medium |-> [maxParticles |-> 50, particleCount |-> 10,
                  shouldSkipFrames |-> FALSE, renderQualityTenths |-> 8],
      low    |-> [maxParticles |-> 25, particleCount |-> 5,
                  shouldSkipFrames |-> TRUE, renderQualityTenths |-> 6] ]

\* baseSettings[this.qualityLevel] || baseSettings.medium
GetQualitySettings(q) == IF q \in DOMAIN BaseSettings THEN BaseSettings[q] ELSE BaseSettings.medium

\* The payload notifyCallbacks builds.
Payload(fps, q) == [fps |-> fps, quality |-> q, settings |-> GetQualitySettings(q)]

\* Variant of AdjustQuality that lowers the level from 'high' only.
AdjustQualityFromHigh(avgFPS, q) ==
    IF Below(avgFPS, LowFPS) /\ q = "high"
    THEN "medium"
    ELSE IF Above(avgFPS, HighFPS) /\ q # "high"
         THEN (IF q = "low" THEN "medium" ELSE "high")
         ELSE q

\* Variant of AdjustQuality that drops straight to the lowest level.
AdjustQualityToFloor(avgFPS, q) ==
    IF Below(avgFPS, LowFPS) /\ q # "low"
    THEN "low"
    ELSE IF Above(avgFPS, HighFPS) /\ q # "high"
    THEN (IF q = "low" THEN "medium" ELSE "high")
    ELSE q

\* Variant of AdjustQuality whose thresholds are inclusive (<= 45, >= 55).
AdjustQualityInclusive(avgFPS, q) ==
    IF ~Above(avgFPS, LowFPS) /\ q # "low"
    THEN (IF q = "high" THEN "medium" ELSE "low")
    ELSE IF ~Below(avgFPS, HighFPS) /\ q # "high"
    THEN (IF q = "low" THEN "medium" ELSE "high")
    ELSE q

\* The quality level adjustQuality leaves, given the average and the level before.
AdjustQuality(avgFPS, q) ==
    IF Below(avgFPS, LowFPS) /\ q # "low"
    THEN (IF q = "high" THEN "medium" ELSE "low")
    ELSE IF Above(avgFPS, HighFPS) /\ q # "high"
    THEN (IF q = "low" THEN "medium" ELSE "high")
    ELSE q

\* Variant of SaveSettings that writes nothing.
SaveSettingsSkipped(item, q) == item

\* The item saveSettings() leaves in the store:
\* if (typeof sharedStorage !== 'undefined')
\*     sharedStorage.saveSetting('qualityLevel', this.qualityLevel)
SaveSettings(item, q) ==
    IF storage = "missing" THEN item ELSE StorageSave(storage, item, q).item

\* An exception leaves saveSettings().
SaveThrows(item, q) == storage # "missing" /\ StorageSave(storage, item, q).thrown

\* Variant of ValidLevel that accepts every argument.
ValidLevelAny(level) == TRUE

\* ['high', 'medium', 'low', 'auto'].includes(level)
ValidLevel(level) == level \in Levels

\* Variant of EvaluationDue that tests the counter before it is incremented.
EvaluationDueBeforeCount(count, adaptive) == (count - 1) % EvalPeriod = 0 /\ adaptive

\* Variant of EvaluationDue that ignores the adaptiveQuality flag.
EvaluationDueAnyMode(count, adaptive) == count % EvalPeriod = 0

\* Whether monitor() runs the periodic check after counting the frame.
EvaluationDue(count, adaptive) == count % EvalPeriod = 0 /\ adaptive

(***************************************************************************)
(* Callback Sets: a JavaScript Set is a sequence without repetitions in    *)
(* insertion order; forEach visits the entries in that order, skips an     *)
(* entry deleted before its turn and visits an entry added during the      *)
(* iteration.                                                              *)
(***************************************************************************)
Events == {"keydown", "touchend"}
PerformanceChange == "performance-change"
Kinds == Events \cup {PerformanceChange}
\* The kinds for which the subscribe calls of p and the calls of its unsubscribe
\* functions are followed one by one.
Followed == {"keydown"}

\* Client callbacks: p returns; th throws; rm calls the unsubscribe function of p
\* for the kind it is invoked for.
CallbackIds == {"p", "th", "rm"}

Range(s) == {s[i] : i \in 1..Len(s)}
SetAdd(s, cb) == IF cb \in Range(s) THEN s ELSE Append(s, cb)
SetDelete(s, cb) == SelectSeq(s, LAMBDA x : x # cb)

NoCallbacks == [event \in {} |-> <<>>]
Registered(map, event) == IF event \in DOMAIN map THEN map[event] ELSE <<>>

\* on(event, callback): the Set is created on first use.
AddCallback(map, event, cb) ==
    [e \in DOMAIN map \cup {event} |->
        IF e = event THEN SetAdd(Registered(map, event), cb) ELSE map[e]]

\* Variant of DeleteCallback that deletes the event's entry from the Map.
DeleteCallbackDropsEvent(map, event, cb) ==
    [e \in DOMAIN map \ {event} |-> map[e]]

\* The unsubscribe function returned by on(), and off(event, callback).
DeleteCallback(map, event, cb) ==
    IF event \in DOMAIN map
    THEN [map EXCEPT ![event] = SetDelete(map[event], cb)]
    ELSE map

\* One callback runs: what it leaves of the Set, of the entries still to visit and
\* of the outstanding subscriptions of p, and whether it returned or threw.
RunCallback(cb, set, todo, subs) ==
    CASE cb = "rm" -> [set |-> SetDelete(set, "p"), todo |-> SetDelete(todo, "p"),
                       subs |-> IF subs > 0 THEN subs - 1 ELSE 0, result |-> "returned"]
      [] cb = "ad" -> [set |-> SetAdd(set, "p"),
                       todo |-> IF "p" \in Range(set) THEN todo ELSE Append(todo, "p"),
                       subs |-> subs + 1, result |-> "returned"]
      [] cb = "th" -> [set |-> set, todo |-> todo, subs |-> subs, result |-> "threw"]
      [] OTHER -> [set |-> set, todo |-> todo, subs |-> subs, result |-> "returned"]

\* Variant of AfterCallback in which an exception leaves forEach.
AfterCallbackUncaught(result, todo) == IF result = "threw" THEN <<>> ELSE todo

\* The entries forEach goes on to visit after a callback: the try/catch around the
\* call is inside the loop body, so a throw changes nothing.
AfterCallback(result, todo) == todo

\* Variant of ForEach that visits the entries from the last one to the first.
RECURSIVE ForEachLastFirst(_, _, _, _, _)
ForEachLastFirst(kind, set, todo, log, subs) ==
    IF todo = <<>>
    THEN [set |-> set, log |-> log, subs |-> subs]
    ELSE LET cb == todo[Len(todo)]
             r == RunCallback(cb, set, SubSeq(todo, 1, Len(todo) - 1), subs)
         IN  ForEachLastFirst(kind, r.set, AfterCallback(r.result, r.todo),
                     Append(log, [kind |-> kind, cb |-> cb, result |-> r.result]),
                     r.subs)

RECURSIVE ForEach(_, _, _, _, _)
ForEach(kind, set, todo, log, subs) ==
    IF todo = <<>>
    THEN [set |-> set, log |-> log, subs |-> subs]
    ELSE LET r == RunCallback(Head(todo), set, Tail(todo), subs)
         IN  ForEach(kind, r.set, AfterCallback(r.result, r.todo),
                     Append(log, [kind |-> kind, cb |-> Head(todo), result |-> r.result]),
                     r.subs)

\* notifyCallbacks() once per payload, in order.
RECURSIVE NotifyAll(_, _, _, _)
NotifyAll(n, set, log, subs) ==
    IF n = 0
    THEN [set |-> set, log |-> log, subs |-> subs]
    ELSE LET r == ForEach(PerformanceChange, set, set, log, subs)
         IN  NotifyAll(n - 1, r.set, r.log, r.subs)

RECURSIVE TotalLen(_, _)
TotalLen(map, events) ==
    IF events = {} THEN 0
    ELSE LET e == CHOOSE x \in events : TRUE
         IN  Len(map[e]) + TotalLen(map, events \ {e})

RegisteredCount == Len(perfCallbacks) + TotalLen(callbacks, DOMAIN callbacks)

(***************************************************************************)
(* Swipe thresholds.  minSwipeVelocity is kept in hundredths of a pixel    *)
(* per millisecond; distances are compared through their squares, which    *)
(* for whole-number deltas decides the comparisons of Math.sqrt exactly.   *)
(***************************************************************************)
minSwipeDistance == 30
maxSwipeTime == 500
minSwipeVelocity == 10

DefaultThresholds ==
    [minSwipeDistance |-> minSwipeDistance, maxSwipeTime |-> maxSwipeTime,
     minSwipeVelocity |-> minSwipeVelocity]

ThresholdChanges ==
    { [minSwipeDistance |-> 50], [maxSwipeTime |-> 300], [minSwipeVelocity |-> 50],
      [minSwipeDistance |-> 30, maxSwipeTime |-> 500, minSwipeVelocity |-> 10] }

Deltas == {-40, 0, 2, 5, 29, 30, 40, 190}
Durations == {0, 150, 300, 301, 500, 501, 600}

NoSwipe == [deltaX |-> 0, deltaY |-> 0, duration |-> 0,
            direction |-> "unclassified", valid |-> FALSE]

(***************************************************************************)
(* Values of the key and contact state of the input engine.                *)
(***************************************************************************)
MaxStarts == 2          \* touchstart events counted per contact id
MaxLiveFrames == 185    \* frames of a run of the governor that is left to settle
MaxPlayed == 2          \* games of one kind played

\* Contact identifiers (Touch.identifier); the host uses an identifier again
\* once its contact is over.
TouchIds == {1, 2}
\* Positions (clientX, clientY) and readings of Date.now() in milliseconds.
Points == {[x |-> 0, y |-> 0], [x |-> 40, y |-> 0], [x |-> 10, y |-> 50]}
Times == {0, 200}
InitialTime == 0

\* KeyboardEvent.key values the host sends, and String.prototype.toLowerCase on them.
HostKeys == {"ArrowUp", "ArrowDown", "ArrowLeft", "ArrowRight",
             "w", "a", "s", "d", "A"}
ToLowerCase(key) ==
    CASE key = "ArrowUp" -> "arrowup"
      [] key = "ArrowDown" -> "arrowdown"
      [] key = "ArrowLeft" -> "arrowleft"
      [] key = "ArrowRight" -> "arrowright"
      [] key = "A" -> "a"
      [] key = "W" -> "w"
      [] key = "S" -> "s"
      [] key = "D" -> "d"
      [] OTHER -> key

\* The modifier flags of a key event.
Modifiers == {[ctrlKey |-> TRUE, shiftKey |-> FALSE, altKey |-> TRUE],
              [ctrlKey |-> FALSE, shiftKey |-> TRUE, altKey |-> FALSE]}
NoModifiers == [ctrlKey |-> FALSE, shiftKey |-> FALSE, altKey |-> FALSE]

\* new Map()
NoKeys == [key \in {} |-> FALSE]
NoTouches == [id \in {} |-> 0]
\* The swipe data of an event that has none; id names the contact the data are of.
NoGesture == [id |-> 0, deltaX |-> 0, deltaY |-> 0, distanceSq |-> 0, duration |-> 0,
              direction |-> "unclassified"]

\* A step of the governor, of the subscriptions or of the swipe functions leaves
\* the key and contact state alone and hands no input event to triggerCallback().
(***************************************************************************)
(* The progress system (GameProgressSystem, src/unnamed/part_001): the     *)
(* progress structure, reduced to the high score, the games played and     *)
(* the achievements of each game and the overall count of games, and its   *)
(* text in storage.                                                        *)
(***************************************************************************)
GameOrder == <<"tetris", "game2048", "handGame">>
GameNames == {GameOrder[i] : i \in DOMAIN GameOrder}
NoProgressItem == <<>>

\* The record of a game and the structure that loadProgress() builds when nothing
\* is stored.
DefaultGame == [highScore |-> 0, gamesPlayed |-> 0, achievements |-> <<>>]
DefaultProgress ==
    [games |-> [name \in GameNames |-> DefaultGame], totalGamesPlayed |-> 0]

\* JSON.stringify(this.progress): the overall count, then the fields of each game
\* in the order of the keys.
GameText(game) == <<game.highScore, game.gamesPlayed, game.achievements>>
Stringify(value) ==
    [i \in 1..(Len(GameOrder) + 1) |->
        IF i = 1 THEN value.totalGamesPlayed ELSE GameText(value.games[GameOrder[i - 1]])]

\* JSON.parse(saved)
Parse(text) ==
    [games |-> [name \in GameNames |->
                   LET i == CHOOSE i \in DOMAIN GameOrder : GameOrder[i] = name
                   IN  [highScore |-> text[i + 1][1], gamesPlayed |-> text[i + 1][2],
                        achievements |-> text[i + 1][3]]],
     totalGamesPlayed |-> text[1]]

\* loadProgress(): the stored progress when there is any, the defaults otherwise.
LoadProgress(saved) ==
    IF saved # NoProgressItem THEN Parse(saved) ELSE DefaultProgress

ProgressUntouched == UNCHANGED <<progress, progressItem>>

EngineUntouched ==
    /\ emitted' = <<>>
    /\ UNCHANGED <<enabled, keys, touches, now, contact, started>>

InputUntouched ==
    /\ EngineUntouched
    /\ ProgressUntouched

(***************************************************************************)
(* Construction: constructor(), init(), detectDevicePerformance(),         *)
(* loadSettings().                                                         *)
(***************************************************************************)
LoadedQuality(nav, item) ==
    IF GetSetting(item) # "auto" THEN GetSetting(item) ELSE DetectDevicePerformance(nav)

LoadedAdaptive(item) == GetSetting(item) = "auto"

Init ==
    /\ storage = "working"
    /\ navigator \in Navigators
    /\ localStorage \in InitialItems
    /\ targetFPS = InitialTargetFPS
    /\ currentFPS = <<InitialTargetFPS, 1>>
    /\ fpsHistory = <<>>
    /\ qualityLevel = LoadedQuality(navigator, localStorage)
    /\ frameCount = 0
    /\ adaptiveQuality = LoadedAdaptive(localStorage)
    /\ monitoringEnabled = FALSE
    /\ armed = 0
    /\ published = <<>>
    /\ lastOp = [op |-> "constructor", arg |-> localStorage,
                 from |-> "auto", evaluated |-> FALSE]
    /\ recorded = <<>>
    /\ pinned = NotPinned
    /\ perfCallbacks = <<>>
    /\ callbacks = NoCallbacks
    /\ invoked = <<>>
    /\ begun = <<>>
    /\ live = [kind \in Followed |-> 0]
    /\ spent = [kind \in Followed |-> FALSE]
    /\ gestureThresholds = DefaultThresholds
    /\ swipe = NoSwipe
    /\ escaped = LoadThrows(localStorage)
    /\ enabled = TRUE
    /\ keys = NoKeys
    /\ touches = NoTouches
    /\ now = InitialTime
    /\ contact = {}
    /\ emitted = <<>>
    /\ started = [id \in TouchIds |-> 0]
    /\ progressItem = NoProgressItem
    /\ progress = LoadProgress(progressItem)

(***************************************************************************)
(* monitor(): one run of the frame callback body with monitoring enabled.  *)
(***************************************************************************)
\* The environment keeps the frame interval steady inside a block of BlockLen frames.
SteadyFrame(deltaTime) ==
    IF fpsHistory = <<>> \/ frameCount % BlockLen = 0
    THEN TRUE
    ELSE InstantFPS(deltaTime) = fpsHistory[Len(fpsHistory)]

MonitorBody(deltaTime, opName) ==
    LET history == PushSample(fpsHistory, InstantFPS(deltaTime))
        avg == Average(history)
        count == frameCount + 1
        due == EvaluationDue(count, adaptiveQuality)
        quality == IF due THEN AdjustQuality(avg, qualityLevel) ELSE qualityLevel
        changed == quality # qualityLevel
    IN  /\ fpsHistory' = history
        /\ currentFPS' = avg
        /\ frameCount' = count
        /\ qualityLevel' = quality
        \* applyQualitySettings() notifies on a change; monitor() notifies after adjustQuality()
        /\ published' = (IF changed THEN <<Payload(avg, quality)>> ELSE <<>>)
                        \o (IF due THEN <<Payload(avg, quality)>> ELSE <<>>)
        /\ localStorage' = IF changed THEN SaveSettings(localStorage, quality)
                           ELSE localStorage
        /\ escaped' = (changed /\ SaveThrows(localStorage, quality))
        /\ lastOp' = [op |-> opName, arg |-> "frame",
                      from |-> qualityLevel, evaluated |-> due]
        /\ recorded' = Append(recorded, InstantFPS(deltaTime))
        /\ UNCHANGED <<navigator, targetFPS, adaptiveQuality, pinned>>

\* Variant of startMonitoring() without the early return on a running governor.
StartMonitoringUnguarded ==
    /\ frameCount < MaxFrames
    /\ armed < MaxArmed
    /\ monitoringEnabled' = TRUE
    /\ \E deltaTime \in DeltaTimes :
          SteadyFrame(deltaTime) /\ MonitorBody(deltaTime, "startMonitoring")
    /\ armed' = armed + 1

StartMonitoring ==
    IF monitoringEnabled
    THEN /\ published' = <<>>
         /\ escaped' = FALSE
         /\ lastOp' = [op |-> "startMonitoring", arg |-> "running",
                       from |-> qualityLevel, evaluated |-> FALSE]
         /\ UNCHANGED <<navigator, localStorage, targetFPS, currentFPS, fpsHistory,
                        qualityLevel, frameCount, adaptiveQuality, monitoringEnabled,
                        armed, recorded, pinned>>
    ELSE /\ frameCount < MaxFrames
         /\ armed < MaxArmed
         /\ monitoringEnabled' = TRUE
         /\ \E deltaTime \in DeltaTimes :
               SteadyFrame(deltaTime) /\ MonitorBody(deltaTime, "startMonitoring")
         /\ armed' = armed + 1

StopMonitoring ==
    /\ monitoringEnabled' = FALSE
    /\ published' = <<>>
    /\ escaped' = FALSE
    /\ lastOp' = [op |-> "stopMonitoring", arg |-> "none",
                  from |-> qualityLevel, evaluated |-> FALSE]
    /\ UNCHANGED <<navigator, localStorage, targetFPS, currentFPS, fpsHistory,
                   qualityLevel, frameCount, adaptiveQuality, armed, recorded, pinned>>

\* Variant of the frame callback that does not read monitoringEnabled.
TickIgnoringFlag ==
    /\ armed > 0
    /\ frameCount < MaxFrames
    /\ UNCHANGED monitoringEnabled
    /\ \E deltaTime \in DeltaTimes :
          SteadyFrame(deltaTime) /\ MonitorBody(deltaTime, "monitor")
    /\ armed' = armed

\* A requestAnimationFrame callback armed by monitor() runs.
Tick ==
    /\ armed > 0
    /\ UNCHANGED monitoringEnabled
    /\ IF monitoringEnabled
       THEN /\ frameCount < MaxFrames
            /\ \E deltaTime \in DeltaTimes :
                  SteadyFrame(deltaTime) /\ MonitorBody(deltaTime, "monitor")
            /\ armed' = armed
       ELSE /\ armed' = armed - 1
            /\ published' = <<>>
            /\ escaped' = FALSE
            /\ lastOp' = [op |-> "monitor", arg |-> "stopped",
                          from |-> qualityLevel, evaluated |-> FALSE]
            /\ UNCHANGED <<navigator, localStorage, targetFPS, currentFPS, fpsHistory,
                           qualityLevel, frameCount, adaptiveQuality, recorded, pinned>>

(***************************************************************************)
(* setQualityLevel(level)                                                  *)
(***************************************************************************)
SetQualityLevel(level) ==
    /\ lastOp' = [op |-> "setQualityLevel", arg |-> level,
                  from |-> qualityLevel, evaluated |-> FALSE]
    /\ IF ValidLevel(level)
       THEN LET quality == IF level = "auto" THEN DetectDevicePerformance(navigator)
                           ELSE level
            IN  /\ qualityLevel' = quality
                /\ adaptiveQuality' = (level = "auto")
                /\ published' = <<Payload(currentFPS, quality)>>
                /\ localStorage' = SaveSettings(localStorage, quality)
                /\ escaped' = SaveThrows(localStorage, quality)
                /\ pinned' = IF level = "auto" THEN NotPinned ELSE level
       ELSE /\ published' = <<>>
            /\ escaped' = FALSE
            /\ UNCHANGED <<qualityLevel, adaptiveQuality, localStorage, pinned>>
    /\ UNCHANGED <<navigator, targetFPS, currentFPS, fpsHistory, frameCount,
                   monitoringEnabled, armed, recorded>>

(***************************************************************************)
(* resetStats()                                                            *)
(***************************************************************************)
ResetStats ==
    /\ fpsHistory' = <<>>
    /\ frameCount' = 0
    /\ recorded' = <<>>
    /\ published' = <<>>
    /\ escaped' = FALSE
    /\ lastOp' = [op |-> "resetStats", arg |-> "none",
                  from |-> qualityLevel, evaluated |-> FALSE]
    /\ UNCHANGED <<navigator, localStorage, targetFPS, currentFPS, qualityLevel,
                   adaptiveQuality, monitoringEnabled, armed, pinned>>

(***************************************************************************)
(* notifyCallbacks(): the payloads the handler hands over are delivered to *)
(* the governor's callbacks; the input engine is not involved.             *)
(***************************************************************************)
NotifyCallbacks ==
    LET r == NotifyAll(Len(published'), perfCallbacks, <<>>, 0)
    IN  /\ perfCallbacks' = r.set
        /\ invoked' = r.log
        /\ begun' = perfCallbacks
        /\ UNCHANGED <<callbacks, live, spent, gestureThresholds, swipe, storage>>
        /\ InputUntouched

Next ==
    \/ StartMonitoring /\ NotifyCallbacks
    \/ StopMonitoring /\ NotifyCallbacks
    \/ Tick /\ NotifyCallbacks
    \/ \E level \in LevelArgs : SetQualityLevel(level) /\ NotifyCallbacks
    \/ ResetStats /\ NotifyCallbacks

Spec == Init /\ [][Next]_vars

(***************************************************************************)
(* A long run of the monitoring loop in automatic mode: after the first    *)
(* block of frames the frame rate stays on one side of the thresholds.     *)
(***************************************************************************)
Side(fps) == IF fps < LowFPS THEN "slow" ELSE IF fps > HighFPS THEN "fast" ELSE "between"

\* After the first frame of the second block every sample is on the side of the
\* sample before it.
SettledFrame(deltaTime) ==
    \/ frameCount <= BlockLen
    \/ Side(InstantFPS(deltaTime)) = Side(fpsHistory[Len(fpsHistory)])

\* A requestAnimationFrame callback armed by monitor() runs on a monitoring governor.
LiveTick ==
    /\ armed > 0
    /\ monitoringEnabled
    /\ frameCount < MaxLiveFrames
    /\ UNCHANGED monitoringEnabled
    /\ \E deltaTime \in DeltaTimes :
          SteadyFrame(deltaTime) /\ SettledFrame(deltaTime)
              /\ MonitorBody(deltaTime, "monitor")
    /\ armed' = armed

InitLive == Init /\ localStorage = NoItem

NextLive ==
    \/ StartMonitoring /\ NotifyCallbacks
    \/ LiveTick /\ NotifyCallbacks

\* requestAnimationFrame runs every callback it was given.
SpecLive == InitLive /\ [][NextLive]_vars /\ WF_vars(LiveTick /\ NotifyCallbacks)

(***************************************************************************)
(* getCurrentFPS() and getPerformanceStats().                              *)
(***************************************************************************)
\* The number that stands for NaN, the value of 0 / 0 and of Math.round(0 / 0).
NaN == -1

\* Math.round of the average <<num, den>>, den > 0 and num >= 0.
Round(avg) == (2 * avg[1] + avg[2]) \div (2 * avg[2])

GetCurrentFPS == Round(currentFPS)

GetPerformanceStats ==
    [currentFPS      |-> Round(currentFPS),
     targetFPS       |-> targetFPS,
     qualityLevel    |-> qualityLevel,
     frameCount      |-> frameCount,
     adaptiveQuality |-> adaptiveQuality,
     averageFPS      |-> IF fpsHistory = <<>> THEN NaN ELSE Round(Average(fpsHistory))]

(***************************************************************************)
(* The governor with a storage collaborator that fails: the page is loaded *)
(* again (a new governor is constructed from the same store) and the       *)
(* store starts or stops failing at any moment.                            *)
(***************************************************************************)
\* new SharedPerformanceManager(): the constructor and init().
Construct ==
    /\ targetFPS' = InitialTargetFPS
    /\ currentFPS' = <<InitialTargetFPS, 1>>
    /\ fpsHistory' = <<>>
    /\ qualityLevel' = LoadedQuality(navigator, localStorage)
    /\ frameCount' = 0
    /\ adaptiveQuality' = LoadedAdaptive(localStorage)
    /\ monitoringEnabled' = FALSE
    /\ armed' = 0
    /\ published' = <<>>
    /\ escaped' = LoadThrows(localStorage)
    /\ lastOp' = [op |-> "constructor", arg |-> localStorage,
                  from |-> "auto", evaluated |-> FALSE]
    /\ recorded' = <<>>
    /\ pinned' = NotPinned
    /\ perfCallbacks' = <<>>
    /\ invoked' = <<>>
    /\ begun' = <<>>
    /\ UNCHANGED <<navigator, localStorage, storage, callbacks, live, spent,
                   gestureThresholds, swipe>>
    /\ InputUntouched

\* The store starts to fail, or recovers.
StorageBecomes(mode) ==
    /\ mode # storage
    /\ storage' = mode
    /\ published' = <<>>
    /\ escaped' = FALSE
    /\ lastOp' = [op |-> "storage", arg |-> mode,
                  from |-> qualityLevel, evaluated |-> FALSE]
    /\ invoked' = <<>>
    /\ begun' = <<>>
    /\ UNCHANGED <<navigator, localStorage, targetFPS, currentFPS, fpsHistory,
                   qualityLevel, frameCount, adaptiveQuality, monitoringEnabled,
                   armed, recorded, pinned, perfCallbacks, callbacks, live, spent,
                   gestureThresholds, swipe>>
    /\ InputUntouched

\* The frames of this specification all take the longest interval.
SlowestFrame == CHOOSE d \in DeltaTimes : \A e \in DeltaTimes : e <= d
SlowFrames ==
    lastOp'.arg = "frame" => recorded'[Len(recorded')] = InstantFPS(SlowestFrame)

NextStorage ==
    \/ \E mode \in StorageModes : StorageBecomes(mode)
    \/ Construct
    \/ StartMonitoring /\ NotifyCallbacks /\ SlowFrames
    \/ StopMonitoring /\ NotifyCallbacks
    \/ Tick /\ NotifyCallbacks /\ SlowFrames
    \/ \E level \in LevelArgs : SetQualityLevel(level) /\ NotifyCallbacks

SpecStorage == Init /\ [][NextStorage]_vars

(***************************************************************************)
(* Subscriptions of the governor: onPerformanceChange(callback) and the    *)
(* unsubscribe function it returns.                                        *)
(***************************************************************************)
\* A step of the dispatcher or of the swipe functions leaves the governor alone.
GovernorUntouched ==
    /\ published' = <<>>
    /\ escaped' = FALSE
    /\ UNCHANGED <<navigator, localStorage, targetFPS, currentFPS, fpsHistory,
                   qualityLevel, frameCount, adaptiveQuality, monitoringEnabled,
                   armed, recorded, pinned, storage>>

\* The count of outstanding subscriptions of p after one more subscribe call,
\* after a call of an unsubscribe function, and after off().
Counted(kind, cb) == cb = "p" /\ kind \in Followed
Subscribed(kind, cb) == IF Counted(kind, cb) THEN [live EXCEPT ![kind] = @ + 1] ELSE live
Unsubscribed(kind, cb) ==
    IF Counted(kind, cb) THEN [live EXCEPT ![kind] = IF @ > 0 THEN @ - 1 ELSE 0]
    ELSE live
Removed(kind, cb) == IF Counted(kind, cb) THEN [live EXCEPT ![kind] = 0] ELSE live

DispatchOp(name, kind, cb) ==
    [op |-> name, arg |-> [kind |-> kind, cb |-> cb],
     from |-> qualityLevel, evaluated |-> FALSE]

OnPerformanceChange(cb) ==
    /\ cb \in Range(perfCallbacks) \/ RegisteredCount < MaxRegistered
    /\ perfCallbacks' = SetAdd(perfCallbacks, cb)
    /\ UNCHANGED <<live, spent>>
    /\ invoked' = <<>>
    /\ begun' = <<>>
    /\ lastOp' = DispatchOp("onPerformanceChange", PerformanceChange, cb)
    /\ GovernorUntouched
    /\ InputUntouched
    /\ UNCHANGED <<callbacks, gestureThresholds, swipe>>

PerfUnsubscribe(cb) ==
    /\ perfCallbacks' = SetDelete(perfCallbacks, cb)
    /\ UNCHANGED <<live, spent>>
    /\ invoked' = <<>>
    /\ begun' = perfCallbacks
    /\ lastOp' = DispatchOp("unsubscribe", PerformanceChange, cb)
    /\ GovernorUntouched
    /\ InputUntouched
    /\ UNCHANGED <<callbacks, gestureThresholds, swipe>>

(***************************************************************************)
(* Dispatcher of the input engine: on(), the unsubscribe function it       *)
(* returns, off() and triggerCallback().                                   *)
(***************************************************************************)
On(event, cb) ==
    /\ Counted(event, cb) => live[event] < MaxLive
    /\ cb \in Range(Registered(callbacks, event)) \/ RegisteredCount < MaxRegistered
    /\ callbacks' = AddCallback(callbacks, event, cb)
    /\ live' = Subscribed(event, cb)
    /\ UNCHANGED spent
    /\ invoked' = <<>>
    /\ begun' = <<>>
    /\ lastOp' = DispatchOp("on", event, cb)
    /\ GovernorUntouched
    /\ InputUntouched
    /\ UNCHANGED <<perfCallbacks, gestureThresholds, swipe>>

\* The function returned by on(event, cb) is called.  For a followed pair this is
\* the first call of a function whose subscribe call is outstanding; for the other
\* pairs calls are not told apart (the body is the body of off(event, cb)).
Unsubscribe(event, cb) ==
    /\ Counted(event, cb) => live[event] > 0
    /\ callbacks' = DeleteCallback(callbacks, event, cb)
    /\ live' = Unsubscribed(event, cb)
    /\ spent' = IF Counted(event, cb) THEN [spent EXCEPT ![event] = TRUE] ELSE spent
    /\ invoked' = <<>>
    /\ begun' = Registered(callbacks, event)
    /\ lastOp' = DispatchOp("unsubscribe", event, cb)
    /\ GovernorUntouched
    /\ InputUntouched
    /\ UNCHANGED <<perfCallbacks, gestureThresholds, swipe>>

\* An unsubscribe function of p that was called before is called again.
UnsubscribeAgain(event) ==
    /\ spent[event]
    /\ callbacks' = DeleteCallback(callbacks, event, "p")
    /\ invoked' = <<>>
    /\ begun' = Registered(callbacks, event)
    /\ lastOp' = DispatchOp("unsubscribeAgain", event, "p")
    /\ GovernorUntouched
    /\ InputUntouched
    /\ UNCHANGED <<perfCallbacks, live, spent, gestureThresholds, swipe>>

Off(event, cb) ==
    /\ callbacks' = DeleteCallback(callbacks, event, cb)
    /\ live' = Removed(event, cb)
    /\ UNCHANGED spent
    /\ invoked' = <<>>
    /\ begun' = Registered(callbacks, event)
    /\ lastOp' = DispatchOp("off", event, cb)
    /\ GovernorUntouched
    /\ InputUntouched
    /\ UNCHANGED <<perfCallbacks, gestureThresholds, swipe>>

TriggerCallback(event) ==
    LET r == ForEach(event, Registered(callbacks, event), Registered(callbacks, event),
                     <<>>, IF event \in Followed THEN live[event] ELSE 0)
    IN  /\ callbacks' = IF event \in DOMAIN callbacks
                        THEN [callbacks EXCEPT ![event] = r.set]
                        ELSE callbacks
        /\ live' = IF event \in Followed THEN [live EXCEPT ![event] = r.subs] ELSE live
        /\ UNCHANGED spent
        /\ invoked' = r.log
        /\ begun' = Registered(callbacks, event)
        /\ lastOp' = DispatchOp("triggerCallback", event, "none")
        /\ GovernorUntouched
        /\ InputUntouched
        /\ UNCHANGED <<perfCallbacks, gestureThresholds, swipe>>

\* The governor of the dispatch specification: a fresh profile on the device
\* that scores 'medium'.
InitDispatch ==
    /\ Init
    /\ localStorage = NoItem
    /\ DeviceScore(navigator) = 6

PinLevels == {"low", "high"}

NextDispatch ==
    \/ \E cb \in CallbackIds : OnPerformanceChange(cb)
    \/ \E cb \in CallbackIds : PerfUnsubscribe(cb)
    \/ \E level \in PinLevels : SetQualityLevel(level) /\ NotifyCallbacks
    \/ \E event \in Events, cb \in CallbackIds : On(event, cb)
    \/ \E event \in Events, cb \in CallbackIds : Unsubscribe(event, cb)
    \/ \E event \in Followed : UnsubscribeAgain(event)
    \/ \E event \in Events, cb \in CallbackIds : Off(event, cb)
    \/ \E event \in Events : TriggerCallback(event)

SpecDispatch == InitDispatch /\ [][NextDispatch]_vars

(***************************************************************************)
(* Callbacks that subscribe during a publish: "ad" calls on() or           *)
(* onPerformanceChange() with p for the kind it is invoked for.            *)
(***************************************************************************)
AddingIds == {"p", "ad", "th"}
AddingEvent == CHOOSE event \in Events : event \notin Followed

NextAdding ==
    \/ \E cb \in AddingIds : OnPerformanceChange(cb)
    \/ \E cb \in AddingIds : PerfUnsubscribe(cb)
    \/ \E level \in PinLevels : SetQualityLevel(level) /\ NotifyCallbacks
    \/ \E cb \in AddingIds : On(AddingEvent, cb)
    \/ \E cb \in AddingIds : Off(AddingEvent, cb)
    \/ TriggerCallback(AddingEvent)

SpecAdding == InitDispatch /\ [][NextAdding]_vars

(***************************************************************************)
(* Swipe functions of the input engine: getSwipeDirection(),               *)
(* isValidSwipe() and setGestureThresholds().                              *)
(***************************************************************************)
Abs(x) == IF x < 0 THEN 0 - x ELSE x

\* Variant of GetSwipeDirection that sends equal magnitudes to the horizontal branch.
GetSwipeDirectionTiesHorizontal(thresholds, deltaX, deltaY) ==
    IF Abs(deltaX) < thresholds.minSwipeDistance
       /\ Abs(deltaY) < thresholds.minSwipeDistance
    THEN "none"
    ELSE IF Abs(deltaX) >= Abs(deltaY)
         THEN (IF deltaX > 0 THEN "right" ELSE "left")
         ELSE (IF deltaY > 0 THEN "down" ELSE "up")

\* getSwipeDirection(deltaX, deltaY); "none" stands for null.
GetSwipeDirection(thresholds, deltaX, deltaY) ==
    IF Abs(deltaX) < thresholds.minSwipeDistance
       /\ Abs(deltaY) < thresholds.minSwipeDistance
    THEN "none"
    ELSE IF Abs(deltaX) > Abs(deltaY)
         THEN (IF deltaX > 0 THEN "right" ELSE "left")
         ELSE (IF deltaY > 0 THEN "down" ELSE "up")

\* distance < minSwipeDistance, for distance = sqrt(distanceSq).
DistanceBelow(thresholds, distanceSq) ==
    distanceSq < thresholds.minSwipeDistance * thresholds.minSwipeDistance

\* distance / duration < minSwipeVelocity; a duration of 0 gives Infinity or NaN,
\* neither of which is below the threshold.
VelocityBelow(thresholds, distanceSq, duration) ==
    10000 * distanceSq
        < thresholds.minSwipeVelocity * thresholds.minSwipeVelocity * duration * duration

\* Variant of IsValidSwipe that reads the thresholds of setupGestureEvents().
IsValidSwipeDefaults(thresholds, distanceSq, duration) ==
    IF DistanceBelow(DefaultThresholds, distanceSq) THEN FALSE
    ELSE IF duration > DefaultThresholds.maxSwipeTime THEN FALSE
    ELSE IF VelocityBelow(DefaultThresholds, distanceSq, duration) THEN FALSE
    ELSE TRUE

\* isValidSwipe(swipeData)
IsValidSwipe(thresholds, distanceSq, duration) ==
    IF DistanceBelow(thresholds, distanceSq) THEN FALSE
    ELSE IF duration > thresholds.maxSwipeTime THEN FALSE
    ELSE IF VelocityBelow(thresholds, distanceSq, duration) THEN FALSE
    ELSE TRUE

\* { ...this.gestureThresholds, ...thresholds }
Merged(old, change) ==
    [k \in DOMAIN old |-> IF k \in DOMAIN change THEN change[k] ELSE old[k]]

DispatcherUntouched ==
    /\ invoked' = <<>>
    /\ begun' = <<>>
    /\ UNCHANGED <<perfCallbacks, callbacks, live, spent>>

SetGestureThresholds(change) ==
    /\ gestureThresholds' = Merged(gestureThresholds, change)
    /\ lastOp' = [op |-> "setGestureThresholds", arg |-> "thresholds",
                  from |-> qualityLevel, evaluated |-> FALSE]
    /\ UNCHANGED swipe
    /\ GovernorUntouched
    /\ InputUntouched
    /\ DispatcherUntouched

\* The swipe data of a gesture (as the touchend handler builds it) are classified
\* by getSwipeDirection() and judged by isValidSwipe().
ClassifySwipe(deltaX, deltaY, duration) ==
    /\ swipe' = [deltaX |-> deltaX, deltaY |-> deltaY, duration |-> duration,
                 direction |-> GetSwipeDirection(gestureThresholds, deltaX, deltaY),
                 valid |-> IsValidSwipe(gestureThresholds,
                                        deltaX * deltaX + deltaY * deltaY, duration)]
    /\ lastOp' = [op |-> "classifySwipe", arg |-> "swipe",
                  from |-> qualityLevel, evaluated |-> FALSE]
    /\ UNCHANGED gestureThresholds
    /\ GovernorUntouched
    /\ InputUntouched
    /\ DispatcherUntouched

NextSwipe ==
    \/ \E change \in ThresholdChanges : SetGestureThresholds(change)
    \/ \E deltaX \in Deltas, deltaY \in Deltas, duration \in Durations :
          ClassifySwipe(deltaX, deltaY, duration)

SpecSwipe == InitDispatch /\ [][NextSwipe]_vars

(***************************************************************************)
(* Events of the input engine: what a handler hands to triggerCallback()   *)
(* and how the events of one handler are delivered.                        *)
(***************************************************************************)
\* An event handed to triggerCallback(): its name, the key and modifier flags of a
\* key event (keyup carries no flags), the identifiers in e.changedTouches and the
\* swipe data of a touchend event; tracked and starts are the identifiers with a
\* record and the touchstart count of the contact at the moment of the call.
InputEvent(kind, key, mods, ids, gesture, tracked, starts) ==
    [kind |-> kind, key |-> key, mods |-> mods, ids |-> ids, gesture |-> gesture,
     tracked |-> tracked, starts |-> starts]

KeyEvent(kind, key, mods) == InputEvent(kind, key, mods, {}, NoGesture, DOMAIN touches, 0)

\* The handler that ran, the host event it received and the pressed keys and
\* tracked contacts it found.
InputOp(name, key, mods, ids, pressed, tracked) ==
    [op |-> name,
     arg |-> [key |-> key, mods |-> mods, ids |-> ids, enabled |-> enabled,
              pressed |-> pressed, tracked |-> tracked],
     from |-> qualityLevel, evaluated |-> FALSE]

\* triggerCallback(event, data) for each event of a handler, in order.
RECURSIVE PublishAll(_, _, _, _)
PublishAll(events, map, subs, log) ==
    IF events = <<>>
    THEN [map |-> map, subs |-> subs, log |-> log]
    ELSE LET kind == Head(events).kind
             set == Registered(map, kind)
             r == ForEach(kind, set, set, log, IF kind \in Followed THEN subs[kind] ELSE 0)
         IN  PublishAll(Tail(events),
                        IF kind \in DOMAIN map THEN [map EXCEPT ![kind] = r.set] ELSE map,
                        IF kind \in Followed THEN [subs EXCEPT ![kind] = r.subs] ELSE subs,
                        r.log)

\* The events of the handler are delivered; the handler touches neither the governor
\* nor the thresholds.
InputDispatch ==
    LET r == PublishAll(emitted', callbacks, live, <<>>)
    IN  /\ callbacks' = r.map
        /\ live' = r.subs
        /\ invoked' = r.log
        /\ begun' = IF emitted' = <<>> THEN <<>>
                     ELSE Registered(callbacks, emitted'[1].kind)
        /\ UNCHANGED <<perfCallbacks, spent, gestureThresholds, swipe>>
        /\ GovernorUntouched
        /\ ProgressUntouched

(***************************************************************************)
(* Key state: the keydown, keyup and blur listeners, isKeyPressed(),       *)
(* getPressedKeys() and getMovementVector().                               *)
(***************************************************************************)
\* this.keys.get(key.toLowerCase()) || false
IsKeyPressed(map, key) ==
    IF ToLowerCase(key) \in DOMAIN map THEN map[ToLowerCase(key)] ELSE FALSE

\* The keys getPressedKeys() returns (their order is the Map's insertion order).
GetPressedKeys(map) == {key \in DOMAIN map : map[key]}

\* map.set(key, value)
MapSet(map, key, value) ==
    [k \in DOMAIN map \cup {key} |-> IF k = key THEN value ELSE map[k]]

\* Variant of AfterKeyUp that uses e.key as it came.
AfterKeyUpRaw(map, key) == MapSet(map, key, FALSE)

\* this.keys after the keydown and the keyup listener.
AfterKeyDown(map, key) == MapSet(map, ToLowerCase(key), TRUE)
AfterKeyUp(map, key) == MapSet(map, ToLowerCase(key), FALSE)

\* Variant of GetMovementVector that reads the arrow keys only.
GetMovementVectorArrows(map) ==
    [x |-> (IF IsKeyPressed(map, "arrowright") THEN 1 ELSE 0)
           - (IF IsKeyPressed(map, "arrowleft") THEN 1 ELSE 0),
     y |-> (IF IsKeyPressed(map, "arrowdown") THEN 1 ELSE 0)
           - (IF IsKeyPressed(map, "arrowup") THEN 1 ELSE 0)]

GetMovementVector(map) ==
    [x |-> (IF IsKeyPressed(map, "arrowright") \/ IsKeyPressed(map, "d") THEN 1 ELSE 0)
           - (IF IsKeyPressed(map, "arrowleft") \/ IsKeyPressed(map, "a") THEN 1 ELSE 0),
     y |-> (IF IsKeyPressed(map, "arrowdown") \/ IsKeyPressed(map, "s") THEN 1 ELSE 0)
           - (IF IsKeyPressed(map, "arrowup") \/ IsKeyPressed(map, "w") THEN 1 ELSE 0)]

\* Variant of GetDirection that tests left and right before up and down.
GetDirectionSidesFirst(map) ==
    IF IsKeyPressed(map, "arrowleft") \/ IsKeyPressed(map, "a") THEN "left"
    ELSE IF IsKeyPressed(map, "arrowright") \/ IsKeyPressed(map, "d") THEN "right"
    ELSE IF IsKeyPressed(map, "arrowup") \/ IsKeyPressed(map, "w") THEN "up"
    ELSE IF IsKeyPressed(map, "arrowdown") \/ IsKeyPressed(map, "s") THEN "down"
    ELSE "none"

\* getDirection(): the first active entry of the object literal {up, down, left,
\* right}, whose entries Object.entries() lists in that order; "none" stands for null.
GetDirection(map) ==
    IF IsKeyPressed(map, "arrowup") \/ IsKeyPressed(map, "w") THEN "up"
    ELSE IF IsKeyPressed(map, "arrowdown") \/ IsKeyPressed(map, "s") THEN "down"
    ELSE IF IsKeyPressed(map, "arrowleft") \/ IsKeyPressed(map, "a") THEN "left"
    ELSE IF IsKeyPressed(map, "arrowright") \/ IsKeyPressed(map, "d") THEN "right"
    ELSE "none"

\* Variant of KeyDown without the test of this.enabled.
KeyDownUnguarded(key, mods) ==
    /\ keys' = AfterKeyDown(keys, key)
    /\ emitted' = <<KeyEvent("keydown", ToLowerCase(key), mods)>>
    /\ lastOp' = InputOp("keydown", key, mods, {}, {}, {})
    /\ UNCHANGED <<enabled, touches, now, contact, started>>
    /\ InputDispatch

KeyDown(key, mods) ==
    /\ IF enabled
       THEN /\ keys' = AfterKeyDown(keys, key)
            /\ emitted' = <<KeyEvent("keydown", ToLowerCase(key), mods)>>
       ELSE /\ keys' = keys
            /\ emitted' = <<>>
    /\ lastOp' = InputOp("keydown", key, mods, {}, {}, {})
    /\ UNCHANGED <<enabled, touches, now, contact, started>>
    /\ InputDispatch

KeyUp(key) ==
    /\ IF enabled
       THEN /\ keys' = AfterKeyUp(keys, key)
            /\ emitted' = <<KeyEvent("keyup", ToLowerCase(key), NoModifiers)>>
       ELSE /\ keys' = keys
            /\ emitted' = <<>>
    /\ lastOp' = InputOp("keyup", key, NoModifiers, {}, {}, {})
    /\ UNCHANGED <<enabled, touches, now, contact, started>>
    /\ InputDispatch

\* Variant of Blur that leaves the keys as they are.
BlurKeepsKeys ==
    /\ keys' = keys
    /\ emitted' = <<>>
    /\ lastOp' = InputOp("blur", "", NoModifiers, {}, GetPressedKeys(keys), {})
    /\ UNCHANGED <<enabled, touches, now, contact, started>>
    /\ InputDispatch

\* The blur listener of the window.
Blur ==
    /\ keys' = NoKeys
    /\ emitted' = <<>>
    /\ lastOp' = InputOp("blur", "", NoModifiers, {}, GetPressedKeys(keys), {})
    /\ UNCHANGED <<enabled, touches, now, contact, started>>
    /\ InputDispatch

(***************************************************************************)
(* enable(), disable() and reset().                                        *)
(***************************************************************************)
Enable ==
    /\ enabled' = TRUE
    /\ emitted' = <<>>
    /\ lastOp' = InputOp("enable", "", NoModifiers, {}, GetPressedKeys(keys),
                         DOMAIN touches)
    /\ UNCHANGED <<keys, touches, now, contact, started>>
    /\ InputDispatch

\* Variant of Disable that leaves the contact records.
DisableKeepsTouches ==
    /\ enabled' = FALSE
    /\ keys' = NoKeys
    /\ touches' = touches
    /\ emitted' = <<>>
    /\ lastOp' = InputOp("disable", "", NoModifiers, {}, GetPressedKeys(keys),
                         DOMAIN touches)
    /\ UNCHANGED <<now, contact, started>>
    /\ InputDispatch

Disable ==
    /\ enabled' = FALSE
    /\ keys' = NoKeys
    /\ touches' = NoTouches
    /\ emitted' = <<>>
    /\ lastOp' = InputOp("disable", "", NoModifiers, {}, GetPressedKeys(keys),
                         DOMAIN touches)
    /\ UNCHANGED <<now, contact, started>>
    /\ InputDispatch

Reset ==
    /\ keys' = NoKeys
    /\ touches' = NoTouches
    /\ emitted' = <<>>
    /\ lastOp' = InputOp("reset", "", NoModifiers, {}, GetPressedKeys(keys),
                         DOMAIN touches)
    /\ UNCHANGED <<enabled, now, contact, started>>
    /\ InputDispatch

(***************************************************************************)
(* Contacts: the touchstart, touchmove and touchend listeners of a touch   *)
(* target, getActiveTouches() and getTouchCount(). The host sends          *)
(* touchstart for identifiers that are not on the surface and touchmove,   *)
(* touchend and touchcancel for identifiers that are.                      *)
(***************************************************************************)
\* e.changedTouches: one or two touches with different identifiers.
Touch(id, point) == [identifier |-> id, clientX |-> point.x, clientY |-> point.y]
Touches == {Touch(id, point) : id \in TouchIds, point \in Points}
ChangedTouches ==
    {<<a>> : a \in Touches}
        \cup {<<a, b>> : a \in {t \in Touches : t.identifier = 1},
                         b \in {t \in Touches : t.identifier = 2}}
\* The touches of touchend and touchcancel events, whose positions are not read.
Origin == CHOOSE point \in Points : point.x = 0 /\ point.y = 0
LiftedTouches ==
    {changed \in ChangedTouches :
        \A i \in 1..Len(changed) : changed[i] = Touch(changed[i].identifier, Origin)}
Identifiers(changed) == {changed[i].identifier : i \in 1..Len(changed)}

\* map.delete(key)
MapDelete(map, key) == [k \in DOMAIN map \ {key} |-> map[k]]

GetActiveTouches(map) == {map[id] : id \in DOMAIN map}
GetTouchCount(map) == Cardinality(DOMAIN map)

\* touchstart: this.touches.set(touch.identifier, {...}) for each changed touch.
RECURSIVE StartContacts(_, _, _)
StartContacts(changed, map, time) ==
    IF changed = <<>> THEN map
    ELSE LET touch == Head(changed)
         IN  StartContacts(Tail(changed),
                 MapSet(map, touch.identifier,
                        [id |-> touch.identifier,
                         startX |-> touch.clientX, startY |-> touch.clientY,
                         currentX |-> touch.clientX, currentY |-> touch.clientY,
                         startTime |-> time]),
                 time)

\* Variant of MoveContacts that makes a record for a changed touch that has none.
RECURSIVE MoveContactsCreating(_, _)
MoveContactsCreating(changed, map) ==
    IF changed = <<>> THEN map
    ELSE LET touch == Head(changed)
         IN  MoveContactsCreating(Tail(changed),
                 IF touch.identifier \in DOMAIN map
                 THEN [map EXCEPT ![touch.identifier] =
                          [@ EXCEPT !.currentX = touch.clientX,
                                    !.currentY = touch.clientY]]
                 ELSE MapSet(map, touch.identifier,
                             [id |-> touch.identifier,
                              startX |-> touch.clientX, startY |-> touch.clientY,
                              currentX |-> touch.clientX, currentY |-> touch.clientY,
                              startTime |-> 0]))

\* touchmove: currentX and currentY of the record of each changed touch that has one.
RECURSIVE MoveContacts(_, _)
MoveContacts(changed, map) ==
    IF changed = <<>> THEN map
    ELSE LET touch == Head(changed)
         IN  MoveContacts(Tail(changed),
                 IF touch.identifier \in DOMAIN map
                 THEN [map EXCEPT ![touch.identifier] =
                          [@ EXCEPT !.currentX = touch.clientX,
                                    !.currentY = touch.clientY]]
                 ELSE map)

\* The swipe data the touchend listener computes from a record.
Gesture(data, time) ==
    LET deltaX == data.currentX - data.startX
        deltaY == data.currentY - data.startY
    IN  [id |-> data.id, deltaX |-> deltaX, deltaY |-> deltaY,
         distanceSq |-> deltaX * deltaX + deltaY * deltaY,
         duration |-> time - data.startTime,
         direction |-> GetSwipeDirection(gestureThresholds, deltaX, deltaY)]

\* Variant of EndContacts that deletes the record before the event is delivered.
RECURSIVE EndContactsDeleteFirst(_, _, _, _, _, _)
EndContactsDeleteFirst(changed, all, map, time, log, counts) ==
    IF changed = <<>> THEN [map |-> map, log |-> log, counts |-> counts]
    ELSE LET id == Head(changed).identifier
         IN  IF id \in DOMAIN map
             THEN EndContactsDeleteFirst(Tail(changed), all, MapDelete(map, id), time,
                      Append(log, InputEvent("touchend", "", NoModifiers, all,
                                             Gesture(map[id], time),
                                             DOMAIN MapDelete(map, id), counts[id])),
                      [counts EXCEPT ![id] = 0])
             ELSE EndContactsDeleteFirst(Tail(changed), all, map, time, log, counts)

\* touchend: for each changed touch that has a record, in order, the swipe data are
\* computed, triggerCallback('touchend', ...) is called and the record is deleted.
RECURSIVE EndContacts(_, _, _, _, _, _)
EndContacts(changed, all, map, time, log, counts) ==
    IF changed = <<>> THEN [map |-> map, log |-> log, counts |-> counts]
    ELSE LET id == Head(changed).identifier
         IN  IF id \in DOMAIN map
             THEN EndContacts(Tail(changed), all, MapDelete(map, id), time,
                      Append(log, InputEvent("touchend", "", NoModifiers, all,
                                             Gesture(map[id], time),
                                             DOMAIN map, counts[id])),
                      [counts EXCEPT ![id] = 0])
             ELSE EndContacts(Tail(changed), all, map, time, log, counts)

\* The touch listener that ran, with the changed touches of its event.
TouchOp(name, changed) ==
    [op |-> name,
     arg |-> [changed |-> changed, ids |-> Identifiers(changed), enabled |-> enabled,
              pressed |-> {}, tracked |-> DOMAIN touches],
     from |-> qualityLevel, evaluated |-> FALSE]

TouchStart(changed, time) ==
    /\ time >= now
    /\ Identifiers(changed) \cap contact = {}
    /\ contact' = contact \cup Identifiers(changed)
    /\ now' = time
    /\ IF enabled
       THEN /\ touches' = StartContacts(changed, touches, time)
            /\ started' = [id \in TouchIds |->
                              IF id \in Identifiers(changed) /\ started[id] < MaxStarts
                              THEN started[id] + 1 ELSE started[id]]
            /\ emitted' = <<InputEvent("touchstart", "", NoModifiers,
                                       Identifiers(changed), NoGesture,
                                       DOMAIN touches', 0)>>
       ELSE /\ emitted' = <<>>
            /\ UNCHANGED <<touches, started>>
    /\ lastOp' = TouchOp("touchstart", changed)
    /\ UNCHANGED <<enabled, keys>>
    /\ InputDispatch

TouchMove(changed) ==
    /\ Identifiers(changed) \subseteq contact
    /\ IF enabled
       THEN /\ touches' = MoveContacts(changed, touches)
            /\ emitted' = <<InputEvent("touchmove", "", NoModifiers,
                                       Identifiers(changed), NoGesture,
                                       DOMAIN touches', 0)>>
       ELSE /\ emitted' = <<>>
            /\ UNCHANGED touches
    /\ lastOp' = TouchOp("touchmove", changed)
    /\ UNCHANGED <<enabled, keys, now, contact, started>>
    /\ InputDispatch

TouchEnd(changed, time) ==
    /\ time >= now
    /\ Identifiers(changed) \subseteq contact
    /\ contact' = contact \ Identifiers(changed)
    /\ now' = time
    /\ IF enabled
       THEN LET r == EndContacts(changed, Identifiers(changed), touches, time,
                                 <<>>, started)
            IN  /\ touches' = r.map
                /\ emitted' = r.log
                /\ started' = r.counts
       ELSE /\ emitted' = <<>>
            /\ UNCHANGED <<touches, started>>
    /\ lastOp' = TouchOp("touchend", changed)
    /\ UNCHANGED <<enabled, keys>>
    /\ InputDispatch

\* The host cancels contacts (touchcancel): no listener is registered for the event,
\* so no code of the engine runs.
TouchCancel(changed) ==
    /\ Identifiers(changed) \subseteq contact
    /\ contact' = contact \ Identifiers(changed)
    /\ emitted' = <<>>
    /\ lastOp' = TouchOp("touchcancel", changed)
    /\ UNCHANGED <<enabled, keys, touches, now, started>>
    /\ InputDispatch

\* The key and the modifier flags of the key events of the contact specification.
HeldKey == "D"
HeldModifiers == CHOOSE mods \in Modifiers : mods.shiftKey

NextTouch ==
    \/ \E changed \in ChangedTouches, time \in Times : TouchStart(changed, time)
    \/ \E changed \in ChangedTouches : TouchMove(changed)
    \/ \E changed \in LiftedTouches, time \in Times : TouchEnd(changed, time)
    \/ \E changed \in LiftedTouches : TouchCancel(changed)
    \/ KeyDown(HeldKey, HeldModifiers)
    \/ Enable
    \/ Disable
    \/ Reset

SpecTouch == InitDispatch /\ [][NextTouch]_vars

\* The engine with subscribers, switched off and on while the host sends key events
\* and the events of one contact.
SingleTouches == {changed \in ChangedTouches : Identifiers(changed) = {1}}
SingleLifted == {changed \in LiftedTouches : Identifiers(changed) = {1}}
SubscriberIds == {"p"}

NextSwitch ==
    \/ \E event \in Events, cb \in SubscriberIds : On(event, cb)
    \/ KeyDown(HeldKey, HeldModifiers)
    \/ KeyUp(HeldKey)
    \/ Blur
    \/ \E changed \in SingleTouches, time \in Times : TouchStart(changed, time)
    \/ \E changed \in SingleTouches : TouchMove(changed)
    \/ \E changed \in SingleLifted, time \in Times : TouchEnd(changed, time)
    \/ Enable
    \/ Disable
    \/ Reset

SpecSwitch == InitDispatch /\ [][NextSwitch]_vars

NextKeys ==
    \/ \E key \in HostKeys, mods \in Modifiers : KeyDown(key, mods)
    \/ \E key \in HostKeys : KeyUp(key)
    \/ Blur
    \/ Enable
    \/ Disable
    \/ Reset

SpecKeys == InitDispatch /\ [][NextKeys]_vars

(***************************************************************************)
(* Operations of the progress system: the update methods, addAchievement,  *)
(* resetGameProgress and the constructor of a later page load.             *)
(***************************************************************************)
Scores == {10, 20}
AchievementIds == {"first"}
UnknownGame == "snake"
ResetNames == GameNames \cup {"all", UnknownGame}

ProgressOp(op, name, result) ==
    [op |-> op, arg |-> [name |-> name, result |-> result],
     from |-> qualityLevel, evaluated |-> FALSE]

ProgressFrame ==
    /\ GovernorUntouched
    /\ EngineUntouched
    /\ DispatcherUntouched
    /\ UNCHANGED <<gestureThresholds, swipe>>

\* saveProgress(): the storage holds the text of this.progress.
SaveProgress == progressItem' = Stringify(progress')

\* The part the three update methods share: high score, games played, overall count.
UpdateGame(op, name, score) ==
    LET game == progress.games[name]
    IN  /\ game.gamesPlayed < MaxPlayed
        /\ progress.totalGamesPlayed < MaxPlayed * Len(GameOrder)
        /\ progress' =
              [progress EXCEPT
                  !.games[name] =
                      [game EXCEPT !.highScore = IF score > @ THEN score ELSE @,
                                   !.gamesPlayed = @ + 1],
                  !.totalGamesPlayed = @ + 1]
        /\ SaveProgress
        /\ lastOp' = ProgressOp(op, name, TRUE)
        /\ ProgressFrame

UpdateTetrisProgress(score) == UpdateGame("updateTetrisProgress", GameOrder[1], score)
Update2048Progress(score) == UpdateGame("update2048Progress", GameOrder[2], score)
UpdateHandGameProgress(score) == UpdateGame("updateHandGameProgress", GameOrder[3], score)

AddAchievement(gameName, id) ==
    /\ IF gameName \in DOMAIN progress.games
          /\ id \notin Range(progress.games[gameName].achievements)
       THEN /\ progress' = [progress EXCEPT !.games[gameName].achievements =
                                                Append(@, id)]
            /\ SaveProgress
            /\ lastOp' = ProgressOp("addAchievement", gameName, TRUE)
       ELSE /\ UNCHANGED <<progress, progressItem>>
            /\ lastOp' = ProgressOp("addAchievement", gameName, FALSE)
    /\ ProgressFrame

ResetGameProgress(gameName) ==
    /\ IF gameName = "all"
       THEN /\ progress' = LoadProgress(progressItem)
            /\ SaveProgress
            /\ lastOp' = ProgressOp("resetGameProgress", gameName, TRUE)
       ELSE IF gameName \in DOMAIN progress.games
       THEN /\ progress' = [progress EXCEPT !.games[gameName] =
                                                LoadProgress(progressItem).games[gameName]]
            /\ SaveProgress
            /\ lastOp' = ProgressOp("resetGameProgress", gameName, TRUE)
       ELSE /\ UNCHANGED <<progress, progressItem>>
            /\ lastOp' = ProgressOp("resetGameProgress", gameName, FALSE)
    /\ ProgressFrame

\* The page is loaded again: the constructor reads the storage.
ConstructProgress ==
    /\ progress' = LoadProgress(progressItem)
    /\ UNCHANGED progressItem
    /\ lastOp' = ProgressOp("constructor", "", TRUE)
    /\ ProgressFrame

NextProgress ==
    \/ \E score \in Scores : UpdateTetrisProgress(score)
    \/ \E score \in Scores : Update2048Progress(score)
    \/ \E score \in Scores : UpdateHandGameProgress(score)
    \/ \E gameName \in GameNames \cup {UnknownGame}, id \in AchievementIds :
          AddAchievement(gameName, id)
    \/ \E gameName \in ResetNames : ResetGameProgress(gameName)
    \/ ConstructProgress

SpecProgress == InitDispatch /\ [][NextProgress]_vars

(***************************************************************************)
(* Properties of the governor.                                             *)
(***************************************************************************)
TickOps == {"monitor", "startMonitoring"}
ConcreteTiers == {"low", "medium", "high"}
Rank(q) == CASE q = "low" -> 0 [] q = "medium" -> 1 [] q = "high" -> 2 [] OTHER -> 99
StepDown(q) == CASE q = "high" -> "medium" [] q = "medium" -> "low" [] OTHER -> q
StepUp(q) == CASE q = "low" -> "medium" [] q = "medium" -> "high" [] OTHER -> q
LastN(s, n) == IF Len(s) <= n THEN s ELSE SubSeq(s, Len(s) - n + 1, Len(s))
ScoreTier(score) == IF score >= 7 THEN "high" ELSE IF score >= 4 THEN "medium" ELSE "low"

\* C1: the sample buffer never holds more than 60 samples; it always holds the
\* most recent samples (at most 60 of them) in arrival order, and the average is
\* the mean of exactly those.
C1_BoundedBuffer ==
    /\ Len(fpsHistory) <= 60
    /\ fpsHistory = LastN(recorded, 60)
    /\ fpsHistory # <<>> =>
          currentFPS = <<SumSeq(LastN(recorded, 60)), Len(LastN(recorded, 60))>>

\* More than 60 samples were recorded and the evicted ones differ from the newest.
C1_Witness ==
    /\ Len(recorded) = 62
    /\ recorded[1] # recorded[62]
    /\ recorded[2] # recorded[61]

\* C2: an automatic evaluation moves the level by at most one step: below 45 it
\* goes one step down (high->medium, medium->low), above 55 one step up
\* (low->medium, medium->high).
C2_SingleStep ==
    lastOp.evaluated =>
        /\ Below(currentFPS, 45) => qualityLevel = StepDown(lastOp.from)
        /\ Above(currentFPS, 55) => qualityLevel = StepUp(lastOp.from)
        /\ Rank(qualityLevel) - Rank(lastOp.from) \in {-1, 0, 1}

\* An evaluation with an average below 45 took the level from high to medium.
C2_Witness ==
    /\ lastOp.evaluated
    /\ Below(currentFPS, 45)
    /\ lastOp.from = "high"
    /\ qualityLevel = "medium"

\* C3: an automatic evaluation whose average lies in the closed band [45, 55]
\* leaves the level unchanged, whatever the level is.
C3_Hysteresis ==
    (lastOp.evaluated /\ ~Below(currentFPS, 45) /\ ~Above(currentFPS, 55))
        => qualityLevel = lastOp.from

\* An evaluation ran at medium with the average exactly 55.
C3_Witness ==
    /\ lastOp.evaluated
    /\ currentFPS[1] = 55 * currentFPS[2]
    /\ lastOp.from = "medium"
    /\ qualityLevel = "medium"

\* C4: a handler evaluates exactly when it is a frame of the monitor running with
\* monitoring enabled and automatic mode on, and the frame counter has just
\* reached a multiple of 60; a frame that does not evaluate leaves the level alone.
C4_EvaluationSchedule ==
    [][ /\ lastOp'.evaluated <=>
              /\ lastOp'.op \in TickOps
              /\ monitoringEnabled'
              /\ adaptiveQuality'
              /\ frameCount' = frameCount + 1
              /\ frameCount' % 60 = 0
        /\ (lastOp'.op \in TickOps /\ ~lastOp'.evaluated)
              => qualityLevel' = qualityLevel ]_vars

\* The 60th frame was counted and the evaluation ran.
C4_Witness ==
    /\ lastOp.evaluated
    /\ lastOp.op = "monitor"
    /\ frameCount = 60

\* C5: when an automatic evaluation changes the level, a payload carrying the new
\* level and the new level's settings is published and the new level is written
\* to the store, in that same handler.
C5_ChangePublished ==
    (lastOp.evaluated /\ qualityLevel # lastOp.from) =>
        /\ published # <<>>
        /\ \A i \in DOMAIN published :
              /\ published[i].quality = qualityLevel
              /\ published[i].settings = BaseSettings[qualityLevel]
              /\ published[i].settings # BaseSettings[lastOp.from]
              /\ published[i].fps = currentFPS
        /\ localStorage = qualityLevel

\* An evaluation raised the level from medium to high.
C5_Witness ==
    /\ lastOp.evaluated
    /\ lastOp.from = "medium"
    /\ qualityLevel = "high"
    /\ published # <<>>

\* C6: after setQualityLevel with a concrete level, the level is that one and
\* automatic mode is off, and both stay so through every later handler until
\* setQualityLevel is accepted again.
C6_PinnedStays ==
    pinned # NotPinned => (qualityLevel = pinned /\ ~adaptiveQuality)

\* Pinned to high, the monitor counted its 60th frame with an average below 45.
C6_Witness ==
    /\ pinned = "high"
    /\ lastOp.op = "monitor"
    /\ lastOp.arg = "frame"
    /\ frameCount = 60
    /\ Below(currentFPS, 45)

\* C7: setQualityLevel('auto') sets the level to the one the capability score
\* gives, whatever it was, and turns automatic mode on.
C7_AutoRederives ==
    (lastOp.op = "setQualityLevel" /\ lastOp.arg = "auto") =>
        /\ qualityLevel = ScoreTier(DeviceScore(navigator))
        /\ adaptiveQuality

\* 'auto' was selected while the level differed from the device's.
C7_Witness ==
    /\ lastOp.op = "setQualityLevel"
    /\ lastOp.arg = "auto"
    /\ lastOp.from # qualityLevel

\* C8: every setQualityLevel(t) with t among low, medium, high, auto publishes a
\* payload and leaves t itself in the store.
C8_PersistsChoice ==
    (lastOp.op = "setQualityLevel" /\ lastOp.arg \in {"low", "medium", "high", "auto"}) =>
        /\ published # <<>>
        /\ localStorage = lastOp.arg

\* C9: setQualityLevel with a value outside low, medium, high, auto changes neither
\* the level, nor the automatic-mode flag, nor the stored item, and publishes nothing.
C9_UnknownIgnored ==
    [][ (lastOp'.op = "setQualityLevel"
            /\ lastOp'.arg \notin {"low", "medium", "high", "auto"})
        => /\ qualityLevel' = qualityLevel
           /\ adaptiveQuality' = adaptiveQuality
           /\ localStorage' = localStorage
           /\ pinned' = pinned
           /\ published' = <<>> ]_vars

\* setQualityLevel('ultra') ran on a governor in automatic mode.
C9_Witness ==
    /\ lastOp.op = "setQualityLevel"
    /\ lastOp.arg = "ultra"
    /\ adaptiveQuality

\* C10: in every reachable state the level is one of low, medium, high.
C10_TierValid == qualityLevel \in ConcreteTiers

\* The governor's own fields and its stored item.
GovernorState == <<navigator, localStorage, targetFPS, currentFPS, fpsHistory,
                   qualityLevel, frameCount, adaptiveQuality, monitoringEnabled,
                   armed, recorded, pinned>>

\* C11: startMonitoring() on a governor that is already monitoring records no
\* sample, arms no further frame callback, publishes nothing and changes no field;
\* stopMonitoring() on a governor that is not monitoring changes no field.
C11_StartStopIdempotent ==
    [][ /\ (lastOp'.op = "startMonitoring" /\ monitoringEnabled)
            => (UNCHANGED GovernorState /\ published' = <<>>)
        /\ (lastOp'.op = "stopMonitoring" /\ ~monitoringEnabled)
            => (UNCHANGED GovernorState /\ published' = <<>>) ]_vars

\* startMonitoring() was called while monitoring was on, with samples in the buffer
\* and a frame callback armed.
C11_Witness ==
    /\ lastOp.op = "startMonitoring"
    /\ lastOp.arg = "running"
    /\ monitoringEnabled
    /\ armed = 1
    /\ fpsHistory # <<>>

\* C12: a frame callback that runs while monitoring is off records no sample,
\* counts no frame, evaluates nothing, publishes nothing and does not arm a
\* successor (one pending callback fewer); while monitoring stays off no callback
\* is armed and no step of the loop changes the buffer, the counter or the level.
C12_CooperativeCancel ==
    [][ /\ (lastOp'.op = "monitor" /\ ~monitoringEnabled)
            => /\ armed' = armed - 1
               /\ UNCHANGED <<fpsHistory, recorded, frameCount, currentFPS,
                              qualityLevel, localStorage, monitoringEnabled>>
               /\ ~lastOp'.evaluated
               /\ published' = <<>>
        /\ (~monitoringEnabled /\ ~monitoringEnabled')
            => /\ armed' <= armed
               /\ lastOp'.op \in {"monitor", "stopMonitoring"}
                     => UNCHANGED <<fpsHistory, frameCount, qualityLevel>> ]_vars

\* The pending frame callback ran after stopMonitoring(): nothing is armed any
\* more and the samples recorded before the stop are still there.
C12_Witness ==
    /\ lastOp.op = "monitor"
    /\ lastOp.arg = "stopped"
    /\ ~monitoringEnabled
    /\ armed = 0
    /\ fpsHistory # <<>>

(***************************************************************************)
(* Properties of the dispatchers.                                          *)
(***************************************************************************)
CallbacksOf(log) == [i \in 1..Len(log) |-> log[i].cb]
Position(s, x) == CHOOSE i \in 1..Len(s) : s[i] = x
Precedes(s, x, y) == x \in Range(s) /\ y \in Range(s) /\ Position(s, x) < Position(s, y)

\* The last handler published one event: triggerCallback, or an accepted
\* setQualityLevel.
IsPublish ==
    \/ lastOp.op = "triggerCallback"
    \/ lastOp.op = "setQualityLevel" /\ Len(published) = 1
PublishedKind ==
    IF lastOp.op = "triggerCallback" THEN lastOp.arg.kind ELSE PerformanceChange
RegisteredIn(perf, map, kind) ==
    IF kind = PerformanceChange THEN perf
    ELSE IF kind \in DOMAIN map THEN map[kind] ELSE <<>>
RegisteredNow(kind) == RegisteredIn(perfCallbacks, callbacks, kind)

\* C13: a publish invokes callbacks of the published kind only, each at most once
\* and in the order of their registration; every callback registered for the kind
\* when the publish began and still registered when it returned was invoked, and
\* when no callback unsubscribes another the invocations are exactly the
\* registrations, in order.  All invocations belong to the publishing handler's step.
C13_PublishAll ==
    IsPublish =>
        LET cbs == CallbacksOf(invoked)
        IN  /\ \A i \in 1..Len(invoked) : invoked[i].kind = PublishedKind
            /\ Range(cbs) \subseteq Range(begun)
            /\ Range(cbs) \subseteq Range(RegisteredNow(PublishedKind)) \cup {"p"}
            /\ \A i, j \in 1..Len(cbs) : i < j => Precedes(begun, cbs[i], cbs[j])
            /\ \A cb \in Range(begun) :
                  cb \in Range(RegisteredNow(PublishedKind)) => cb \in Range(cbs)
            /\ "rm" \notin Range(begun) => cbs = begun

\* A publish of one event invoked the two callbacks registered for it, while a
\* callback registered for the other event only was not invoked.
C13_Witness ==
    /\ lastOp.op = "triggerCallback"
    /\ Len(invoked) = 2
    /\ \E other \in Events \ {lastOp.arg.kind} :
          /\ Registered(callbacks, other) # <<>>
          /\ Range(Registered(callbacks, other)) \cap Range(CallbacksOf(invoked)) = {}

\* C14: when a callback throws during a publish, the callbacks registered after it
\* are still invoked (all but one unsubscribed before its turn), and the handler
\* goes on: setQualityLevel still leaves the new level in the field and in the store.
C14_FailureIsolation ==
    (IsPublish /\ \E i \in 1..Len(invoked) : invoked[i].result = "threw") =>
        /\ \A cb \in Range(begun) :
              \/ cb \in Range(CallbacksOf(invoked))
              \/ cb = "p" /\ Precedes(begun, "rm", "p")
        /\ lastOp.op = "setQualityLevel" =>
              /\ qualityLevel = lastOp.arg
              /\ localStorage = lastOp.arg
              /\ published = <<Payload(currentFPS, lastOp.arg)>>

\* setQualityLevel changed the level with a throwing callback registered before a
\* returning one: both ran and the new level is stored.
C14_Witness ==
    /\ lastOp.op = "setQualityLevel"
    /\ lastOp.from # qualityLevel
    /\ localStorage = qualityLevel
    /\ Len(invoked) = 2
    /\ invoked[1].result = "threw"
    /\ invoked[2].result = "returned"

\* C15: a call of an unsubscribe function leaves its callback unregistered for its
\* kind and the other registrations as they were, in order; a publish invokes no
\* callback that was not registered for the kind when it began, and invokes every
\* callback registered when it began and when it returned; and p is registered
\* for a followed kind only while a subscribe call for it is outstanding.
C15_Unsubscribed ==
    /\ lastOp.op = "unsubscribe" =>
          LET after == RegisteredNow(lastOp.arg.kind)
          IN  /\ Range(after) = Range(begun) \ {lastOp.arg.cb}
              /\ \A x, y \in Range(after) : Precedes(after, x, y) <=> Precedes(begun, x, y)
    /\ IsPublish =>
          /\ Range(CallbacksOf(invoked)) \subseteq Range(begun)
          /\ Range(begun) \cap Range(RegisteredNow(PublishedKind))
                \subseteq Range(CallbacksOf(invoked))
    /\ \A kind \in Followed : "p" \in Range(RegisteredNow(kind)) => live[kind] >= 1

\* An unsubscribe function removed its callback from a Set that held another one.
C15_Witness ==
    /\ lastOp.op = "unsubscribe"
    /\ lastOp.arg.cb \in Range(begun)
    /\ Len(begun) >= 2
    /\ Len(RegisteredNow(lastOp.arg.kind)) = Len(begun) - 1

\* C16: while a subscribe call of p for a kind is outstanding (its unsubscribe
\* function was not called, nor off()), p is registered for that kind.
C16_OwnSubscription ==
    \A kind \in Followed : live[kind] >= 1 => "p" \in Range(RegisteredNow(kind))

\* C17: a publish invokes every callback that was registered for the kind when it
\* began, whatever the callbacks unsubscribe meanwhile.
C17_DispatchNotInterrupted ==
    IsPublish => Range(begun) \subseteq Range(CallbacksOf(invoked))

\* C18: a repeated call of an unsubscribe function leaves the Set of its kind as
\* it was.
C18_RepeatedUnsubscribe ==
    lastOp.op = "unsubscribeAgain" => RegisteredNow(lastOp.arg.kind) = begun

(***************************************************************************)
(* Properties of the swipe functions.                                      *)
(***************************************************************************)
\* C19 as claimed: none when both magnitudes are below the minimum distance;
\* otherwise, when |deltaX| >= |deltaY| (equal magnitudes included), right for a
\* positive deltaX and left else; otherwise down for a positive deltaY and up else.
C19_TiesHorizontal ==
    lastOp.op = "classifySwipe" =>
        swipe.direction =
            IF Abs(swipe.deltaX) < gestureThresholds.minSwipeDistance
               /\ Abs(swipe.deltaY) < gestureThresholds.minSwipeDistance
            THEN "none"
            ELSE IF Abs(swipe.deltaX) >= Abs(swipe.deltaY)
                 THEN (IF swipe.deltaX > 0 THEN "right" ELSE "left")
                 ELSE (IF swipe.deltaY > 0 THEN "down" ELSE "up")

\* C19 amended: none when both magnitudes are below the minimum distance;
\* otherwise right or left (by the sign of deltaX) when |deltaX| is strictly
\* greater than |deltaY|, and down or up (by the sign of deltaY) in every other
\* case, equal magnitudes included.  With the default minimum distance (40, 2)
\* is right, (5, 5) is none and (0, 190) is down.
C19_Classifier ==
    lastOp.op = "classifySwipe" =>
        LET min == gestureThresholds.minSwipeDistance
            absX == Abs(swipe.deltaX)
            absY == Abs(swipe.deltaY)
        IN  /\ (absX < min /\ absY < min) => swipe.direction = "none"
            /\ (~(absX < min /\ absY < min) /\ absX > absY) =>
                  swipe.direction = (IF swipe.deltaX > 0 THEN "right" ELSE "left")
            /\ (~(absX < min /\ absY < min) /\ absX <= absY) =>
                  swipe.direction = (IF swipe.deltaY > 0 THEN "down" ELSE "up")
            /\ min = 30 =>
                  /\ (swipe.deltaX = 40 /\ swipe.deltaY = 2) => swipe.direction = "right"
                  /\ (swipe.deltaX = 5 /\ swipe.deltaY = 5) => swipe.direction = "none"
                  /\ (swipe.deltaX = 0 /\ swipe.deltaY = 190) => swipe.direction = "down"

\* A gesture with equal magnitudes that reach the minimum distance was classified.
C19_Witness ==
    /\ lastOp.op = "classifySwipe"
    /\ swipe.deltaX = 40
    /\ swipe.deltaY = -40
    /\ swipe.direction = "up"

\* C20: isValidSwipe returns true exactly when the distance reaches the current
\* minimum distance, the duration does not exceed the current maximum time and
\* distance / duration reaches the current minimum velocity; with the thresholds of
\* setupGestureEvents() 190 units in 600 ms is not valid and 40 units in 150 ms is.
C20_ValidSwipe ==
    lastOp.op = "classifySwipe" =>
        LET distanceSq == swipe.deltaX * swipe.deltaX + swipe.deltaY * swipe.deltaY
            t == gestureThresholds
        IN  /\ swipe.valid <=>
                  /\ distanceSq >= t.minSwipeDistance * t.minSwipeDistance
                  /\ swipe.duration <= t.maxSwipeTime
                  /\ 100 * 100 * distanceSq
                        >= (t.minSwipeVelocity * swipe.duration)
                            * (t.minSwipeVelocity * swipe.duration)
            /\ t = [minSwipeDistance |-> 30, maxSwipeTime |-> 500,
                    minSwipeVelocity |-> 10] =>
                  /\ (distanceSq = 190 * 190 /\ swipe.duration = 600) => ~swipe.valid
                  /\ (distanceSq = 40 * 40 /\ swipe.duration = 150) => swipe.valid

\* After the minimum distance was raised to 50, 40 units in 150 ms was judged
\* not valid.
C20_Witness ==
    /\ lastOp.op = "classifySwipe"
    /\ gestureThresholds.minSwipeDistance = 50
    /\ swipe.deltaX = 40
    /\ swipe.deltaY = 0
    /\ swipe.duration = 150
    /\ ~swipe.valid

(***************************************************************************)
(* Properties of the governor with a failing storage collaborator, and of  *)
(* its construction.                                                       *)
(***************************************************************************)
\* C27: a failure of the storage collaborator (the storage script is missing, or
\* the store throws on read or write) never leaves governor initialisation,
\* setQualityLevel or an automatic evaluation as an exception; the level in memory
\* is the one the operation selected (with its payload published), and a later
\* evaluation still moves the level by the average as adjustQuality() prescribes.
C27_StorageFailureContained ==
    /\ ~escaped
    /\ storage # "working" =>
          /\ lastOp.op = "constructor" =>
                /\ qualityLevel = ScoreTier(DeviceScore(navigator))
                /\ adaptiveQuality
          /\ (lastOp.op = "setQualityLevel" /\ lastOp.arg \in Levels) =>
                /\ qualityLevel = IF lastOp.arg = "auto"
                                  THEN ScoreTier(DeviceScore(navigator))
                                  ELSE lastOp.arg
                /\ adaptiveQuality = (lastOp.arg = "auto")
                /\ published = <<Payload(currentFPS, qualityLevel)>>
          /\ (lastOp.op \in TickOps /\ lastOp.evaluated) =>
                /\ qualityLevel = IF Below(currentFPS, LowFPS) THEN StepDown(lastOp.from)
                                  ELSE IF Above(currentFPS, HighFPS)
                                       THEN StepUp(lastOp.from)
                                       ELSE lastOp.from
                /\ published # <<>>

\* An automatic evaluation lowered the level while the store threw on write: the
\* level in memory changed, the stored item did not follow.
C27_Witness ==
    /\ storage = "throwing"
    /\ lastOp.op \in TickOps
    /\ lastOp.evaluated
    /\ qualityLevel # lastOp.from
    /\ localStorage # qualityLevel
    /\ ~escaped

\* C28: when fpsHistory is empty (before the first frame or after resetStats()),
\* the average the governor reports, read from getPerformanceStats().averageFPS or
\* from getCurrentFPS(), is the target FPS.
C28_EmptyAverage ==
    fpsHistory = <<>> =>
        \/ GetPerformanceStats.averageFPS = targetFPS
        \/ GetCurrentFPS = targetFPS

\* C29: after construction the level is the one derived from the capability score
\* and automatic mode is on, unless the storage collaborator returned one of the
\* levels low, medium, high, in which case the level is that value and automatic
\* mode is off.
C29_Construction ==
    lastOp.op = "constructor" =>
        LET returned == IF storage = "working" THEN localStorage ELSE NoItem
        IN  IF returned \in ConcreteTiers
            THEN qualityLevel = returned /\ ~adaptiveQuality
            ELSE qualityLevel = ScoreTier(DeviceScore(navigator)) /\ adaptiveQuality

(***************************************************************************)
(* Properties of the key state.                                            *)
(***************************************************************************)
LowerKeys == {ToLowerCase(key) : key \in HostKeys}
ClearOps == {"blur", "disable", "reset"}

\* C24: after the blur listener ran no key reads pressed (isKeyPressed is false
\* for every key and getPressedKeys is empty), and the listener handed no event,
\* so no keyup, to triggerCallback and called no callback.
C24_FocusLoss ==
    lastOp.op = "blur" =>
        /\ \A key \in HostKeys \cup LowerKeys : ~IsKeyPressed(keys, key)
        /\ GetPressedKeys(keys) = {}
        /\ emitted = <<>>
        /\ invoked = <<>>

\* The window lost focus while "a" and "arrowup" were pressed.
C24_Witness ==
    /\ lastOp.op = "blur"
    /\ {"a", "arrowup"} \subseteq lastOp.arg.pressed
    /\ ~IsKeyPressed(keys, "a")

\* C25: no key reads pressed at the start; a key-down handled while the engine
\* is enabled makes the lowercased key read pressed and publishes one keydown
\* event with the lowercased key and the modifier flags of the host event; a
\* key-up handled while enabled makes it read not pressed and publishes one
\* keyup event; blur, disable() and reset() make every key read not pressed; and
\* no other step changes what a key reads. So isKeyPressed(k) is true exactly when
\* the last key event handled for k since the last clear was a key-down.
C25_KeyState ==
    /\ \A key \in HostKeys \cup LowerKeys : ~IsKeyPressed(keys, key)
    /\ [][ LET op == lastOp'.op
               handled == op \in {"keydown", "keyup"} /\ enabled
               k == ToLowerCase(lastOp'.arg.key)
           IN  /\ handled =>
                     /\ IsKeyPressed(keys', k) = (op = "keydown")
                     /\ IsKeyPressed(keys', lastOp'.arg.key) = (op = "keydown")
                     /\ \A other \in LowerKeys \ {k} :
                           IsKeyPressed(keys', other) = IsKeyPressed(keys, other)
                     /\ Len(emitted') = 1
                     /\ emitted'[1].kind = op
                     /\ emitted'[1].key = k
                     /\ op = "keydown" => emitted'[1].mods = lastOp'.arg.mods
               /\ op \in ClearOps =>
                     \A key \in LowerKeys : ~IsKeyPressed(keys', key)
               /\ (~handled /\ op \notin ClearOps) =>
                     \A key \in LowerKeys :
                        IsKeyPressed(keys', key) = IsKeyPressed(keys, key)
         ]_vars

\* A key-down of "A" with ctrl and alt held was handled while "d" was pressed:
\* "a" reads pressed and the keydown event carries "a" and the flags.
C25_Witness ==
    /\ lastOp.op = "keydown"
    /\ lastOp.arg.key = "A"
    /\ lastOp.arg.enabled
    /\ IsKeyPressed(keys, "a")
    /\ IsKeyPressed(keys, "D")
    /\ Len(emitted) = 1
    /\ emitted[1].key = "a"
    /\ emitted[1].mods.ctrlKey
    /\ emitted[1].mods.altKey

\* C30: the movement vector has x = +1 for (right or d) alone, -1 for (left or a)
\* alone and 0 otherwise, and y = +1 for (down or s) alone, -1 for (up or w) alone
\* and 0 otherwise; a direction counts once however many of its keys are pressed,
\* and opposite directions cancel.
C30_MovementVector ==
    LET pressed == GetPressedKeys(keys)
        right == "arrowright" \in pressed \/ "d" \in pressed
        left == "arrowleft" \in pressed \/ "a" \in pressed
        down == "arrowdown" \in pressed \/ "s" \in pressed
        up == "arrowup" \in pressed \/ "w" \in pressed
        v == GetMovementVector(keys)
    IN  /\ v.x \in {-1, 0, 1}
        /\ v.y \in {-1, 0, 1}
        /\ v.x = CASE right /\ ~left -> 1 [] left /\ ~right -> -1 [] OTHER -> 0
        /\ v.y = CASE down /\ ~up -> 1 [] up /\ ~down -> -1 [] OTHER -> 0

\* "arrowright", "d" and "a" are pressed together with "w": the vector is (0, -1).
C30_Witness ==
    /\ {"arrowright", "d", "a", "w"} \subseteq GetPressedKeys(keys)
    /\ ~IsKeyPressed(keys, "s")
    /\ ~IsKeyPressed(keys, "arrowdown")
    /\ GetMovementVector(keys) = [x |-> 0, y |-> -1]

(***************************************************************************)
(* Properties of the contacts.                                             *)
(***************************************************************************)
\* C21: when the touchend listener of an enabled engine handles contacts that have
\* a record, it publishes exactly one touchend event for each of them, whose swipe
\* data are deltaX / deltaY = current - start of the record, duration = the time
\* now - the record's start time, and the direction getSwipeDirection gives for
\* these deltas; the record is still there while the event is delivered, and after
\* the handler the contact has no record while every other record is as it was.
C21_ContactEnd ==
    [][ (lastOp'.op = "touchend" /\ enabled) =>
            LET ended == lastOp'.arg.ids \cap DOMAIN touches
                EventsOf(id) == {i \in 1..Len(emitted') : emitted'[i].gesture.id = id}
            IN  /\ Len(emitted') = Cardinality(ended)
                /\ \A id \in ended :
                      /\ Cardinality(EventsOf(id)) = 1
                      /\ \A i \in EventsOf(id) :
                            LET event == emitted'[i]
                                data == touches[id]
                            IN  /\ event.kind = "touchend"
                                /\ event.ids = lastOp'.arg.ids
                                /\ event.gesture.deltaX = data.currentX - data.startX
                                /\ event.gesture.deltaY = data.currentY - data.startY
                                /\ event.gesture.duration = now' - data.startTime
                                /\ event.gesture.direction =
                                      GetSwipeDirection(gestureThresholds,
                                                        data.currentX - data.startX,
                                                        data.currentY - data.startY)
                                /\ id \in event.tracked
                /\ DOMAIN touches' = DOMAIN touches \ ended
                /\ \A id \in DOMAIN touches' : touches'[id] = touches[id]
      ]_vars

\* Two contacts ended in one touchend event, 200 ms after the first had started
\* and moved 40 to the right: two touchend events were published, the first a
\* swipe to the right delivered while both records were there, and no record is left.
C21_Witness ==
    /\ lastOp.op = "touchend"
    /\ lastOp.arg.enabled
    /\ lastOp.arg.tracked = {1, 2}
    /\ Len(emitted) = 2
    /\ emitted[1].gesture.id = 1
    /\ emitted[1].gesture.deltaX = 40
    /\ emitted[1].gesture.duration = 200
    /\ emitted[1].gesture.direction = "right"
    /\ emitted[1].tracked = {1, 2}
    /\ emitted[2].tracked = {2}
    /\ touches = NoTouches

\* C22: after the host cancelled contacts, none of them has a record, and nothing
\* was published.
C22_ContactCancel ==
    lastOp.op = "touchcancel" =>
        /\ lastOp.arg.ids \cap DOMAIN touches = {}
        /\ emitted = <<>>

\* C23: every published touchend for a contact id comes after exactly one
\* published touchstart for that id since the touchend published for it before,
\* and when a touchstart for an id is handled the id has no record.
C23_StartEndPairing ==
    /\ \A i \in 1..Len(emitted) :
          emitted[i].kind = "touchend" => emitted[i].starts = 1
    /\ (lastOp.op = "touchstart" /\ lastOp.arg.enabled) =>
          lastOp.arg.ids \cap lastOp.arg.tracked = {}

\* C26: when disable() has returned the engine is disabled, no key reads pressed
\* and there is no contact record.
C26_DisableClears ==
    lastOp.op = "disable" =>
        /\ ~enabled
        /\ GetPressedKeys(keys) = {}
        /\ \A key \in HostKeys : ~IsKeyPressed(keys, key)
        /\ GetActiveTouches(touches) = {}
        /\ GetTouchCount(touches) = 0

\* disable() was called with a key pressed and two contacts tracked.
C26_Witness ==
    /\ lastOp.op = "disable"
    /\ lastOp.arg.enabled
    /\ lastOp.arg.pressed = {"d"}
    /\ lastOp.arg.tracked = {1, 2}
    /\ touches = NoTouches
    /\ keys = NoKeys

(***************************************************************************)
(* Further properties of the key state.                                    *)
(***************************************************************************)
\* The directions in the order getDirection() tests them, and the keys of each.
DirectionOrder == <<"up", "down", "left", "right">>
DirectionKeys ==
    [up |-> {"arrowup", "w"}, down |-> {"arrowdown", "s"},
     left |-> {"arrowleft", "a"}, right |-> {"arrowright", "d"}]
Active(dir) == DirectionKeys[dir] \cap GetPressedKeys(keys) # {}

\* C31: getDirection() returns the first direction, in the order up, down, left,
\* right, one of whose two keys is pressed, and none when no directional key is
\* pressed.
C31_DirectionPriority ==
    LET actives == {i \in 1..Len(DirectionOrder) : Active(DirectionOrder[i])}
    IN  IF actives = {}
        THEN GetDirection(keys) = "none"
        ELSE \E i \in actives :
                /\ \A j \in actives : i <= j
                /\ GetDirection(keys) = DirectionOrder[i]

\* "s", "arrowleft" and "d" are pressed and no key of up: the direction is down.
C31_Witness ==
    /\ {"s", "arrowleft", "d"} \subseteq GetPressedKeys(keys)
    /\ ~Active("up")
    /\ GetDirection(keys) = "down"

(***************************************************************************)
(* Further properties of the contacts.                                     *)
(***************************************************************************)
\* C32: the touchstart listener of an enabled engine leaves, for each changed
\* touch, a record under its identifier whose start and current position are the
\* position of the touch and whose start time is the time now; the touchmove
\* listener sets the current position of the record of each changed touch that
\* has one to the position of the touch, leaves the id, the start position and
\* the start time of that record and every other record as they were, and makes
\* no record.
C32_RecordFields ==
    [][ LET changed == lastOp'.arg.changed
        IN  /\ (lastOp'.op = "touchstart" /\ enabled) =>
                  \A i \in 1..Len(changed) :
                     /\ changed[i].identifier \in DOMAIN touches'
                     /\ touches'[changed[i].identifier] =
                           [id |-> changed[i].identifier,
                            startX |-> changed[i].clientX,
                            startY |-> changed[i].clientY,
                            currentX |-> changed[i].clientX,
                            currentY |-> changed[i].clientY,
                            startTime |-> now']
            /\ (lastOp'.op = "touchmove" /\ enabled) =>
                  /\ DOMAIN touches' = DOMAIN touches
                  /\ \A id \in DOMAIN touches \ lastOp'.arg.ids :
                        touches'[id] = touches[id]
                  /\ \A i \in 1..Len(changed) :
                        changed[i].identifier \in DOMAIN touches =>
                           LET old == touches[changed[i].identifier]
                               new == touches'[changed[i].identifier]
                           IN  /\ new.currentX = changed[i].clientX
                               /\ new.currentY = changed[i].clientY
                               /\ new.id = old.id
                               /\ new.startX = old.startX
                               /\ new.startY = old.startY
                               /\ new.startTime = old.startTime
      ]_vars

\* A touchmove for contacts 1 and 2 was handled when only contact 1 had a record
\* (started at (0, 0) at time 0): its current position is now (10, 50), its start
\* is as it was, and contact 2 has no record.
C32_Witness ==
    /\ lastOp.op = "touchmove"
    /\ lastOp.arg.enabled
    /\ lastOp.arg.ids = {1, 2}
    /\ lastOp.arg.tracked = {1}
    /\ DOMAIN touches = {1}
    /\ touches[1] = [id |-> 1, startX |-> 0, startY |-> 0,
                      currentX |-> 10, currentY |-> 50, startTime |-> 0]

(***************************************************************************)
(* Further properties of the governor.                                     *)
(***************************************************************************)
\* C33: an automatic evaluation publishes exactly one payload when it changed the
\* level and none when the level stayed the same.
C33_NotifyOnChangeOnly ==
    lastOp.evaluated =>
        Len(published) = IF qualityLevel # lastOp.from THEN 1 ELSE 0

\* C34: at most one requestAnimationFrame callback of monitor() is armed at any time.
C34_SingleLoop == armed <= 1

\* The last handler ran in automatic mode and wrote the level to a working store:
\* setQualityLevel('auto'), or an evaluation that changed the level.
PersistedInAuto ==
    /\ storage = "working"
    /\ adaptiveQuality
    /\ \/ lastOp.op = "setQualityLevel" /\ lastOp.arg = "auto"
       \/ lastOp.op \in TickOps /\ lastOp.evaluated /\ qualityLevel # lastOp.from

\* C35: when a governor in automatic mode has written its level to the store, a
\* governor constructed from that store is in automatic mode.
C35_AutoSurvivesReload == PersistedInAuto => LoadedAdaptive(localStorage)

\* The last sample recorded is below the lower, above the upper threshold.
Slow == fpsHistory # <<>> /\ Side(fpsHistory[Len(fpsHistory)]) = "slow"
Fast == fpsHistory # <<>> /\ Side(fpsHistory[Len(fpsHistory)]) = "fast"

\* C36: in automatic mode with monitoring running and every armed callback run,
\* if from some point on every sample is below 45 the level eventually is low and
\* stays low, and if from some point on every sample is above 55 the level
\* eventually is high and stays high.
C36_Converges ==
    /\ <>[]Slow => <>[](qualityLevel = "low")
    /\ <>[]Fast => <>[](qualityLevel = "high")

\* On the device that starts at 'high' the samples turned slow after a first block
\* of fast frames, and the third evaluation brought the level to low.
C36_Witness ==
    /\ DeviceScore(navigator) >= 7
    /\ recorded # <<>>
    /\ Side(recorded[1]) = "fast"
    /\ Slow
    /\ lastOp.evaluated
    /\ lastOp.from = "medium"
    /\ qualityLevel = "low"
    /\ frameCount = 3 * EvalPeriod

(***************************************************************************)
(* Further properties of the dispatcher and of the input engine.           *)
(***************************************************************************)
\* C37: a publish invokes only callbacks that were registered for the kind when
\* it began, and makes at most as many invocations as there were such callbacks.
C37_RegisteredAtStart ==
    IsPublish =>
        /\ Range(CallbacksOf(invoked)) \subseteq Range(begun)
        /\ Len(invoked) <= Len(begun)

\* C38: while the engine is disabled no key is pressed, no contact is tracked and
\* no event is published, whatever the host sends; enable() and reset() leave the
\* registered subscriptions as they were.
HostOps == {"keydown", "keyup", "touchstart", "touchmove", "touchend"}

C38_DisabledIgnoresEvents ==
    [][/\ ~enabled' => /\ GetPressedKeys(keys') = {}
                        /\ touches' = NoTouches
                        /\ emitted' = <<>>
                        /\ invoked' = <<>>
       /\ lastOp'.op \in {"enable", "reset"} => callbacks' = callbacks]_vars

C38_Witness ==
    /\ ~enabled
    /\ lastOp.op \in HostOps
    /\ lastOp.op \in DOMAIN callbacks
    /\ Registered(callbacks, lastOp.op) # <<>>

\* C39: with the default thresholds, a swipe result that isValidSwipe() accepts has
\* a direction (getSwipeDirection() did not return null for it).
C39_ValidHasDirection ==
    (/\ lastOp.op = "classifySwipe"
     /\ gestureThresholds = DefaultThresholds
     /\ swipe.valid) => swipe.direction # "none"

(***************************************************************************)
(* Properties of the progress system.                                      *)
(***************************************************************************)
\* C40: resetGameProgress(name) returns true and leaves the record of a known game
\* at its defaults, resetGameProgress("all") returns true and leaves the whole
\* structure at its defaults, whatever the storage holds; for an unknown name it
\* returns false and changes neither the structure nor the storage.
C40_ResetRestoresDefaults ==
    [][lastOp'.op = "resetGameProgress" =>
          LET name == lastOp'.arg.name
              result == lastOp'.arg.result
          IN  /\ name \in GameNames => result /\ progress'.games[name] = DefaultGame
              /\ name = "all" => result /\ progress' = DefaultProgress
              /\ name \notin GameNames \cup {"all"} =>
                    /\ ~result
                    /\ UNCHANGED <<progress, progressItem>>]_vars

====
